---- MODULE Spec2Model ----
(***************************************************************************)
(* LiveSRT: the incremental LLM translator (livesrt/translate/base.py).    *)
(* One LlmTranslator, its driver task process(), the callers of            *)
(* update_turns, the completion backend and the sink.                      *)
(* The audio sources (livesrt/mic.py): the microphone capture thread, the  *)
(* file replay feeder and its decoder, and their bounded queue.            *)
(* The ASR session (livesrt/aai.py): stream() and its TX and RX tasks.     *)
(***************************************************************************)
EXTENDS Integers, Sequences, FiniteSets, TLC

\* ---------------------------------------------------------------- bounds
\* Source turn ids are 1..MaxTurnId.
MaxTurnId == 2
\* Number of update_turns calls in one behaviour.
MaxUpdates == 3
\* Largest number of tool calls in one LLM response.
MaxToolCalls == 2
\* Number of update_turns calls in one behaviour of LiveSpec, and largest
\* number of tool calls in one LLM response there.
MaxLiveUpdates == 2
MaxLiveToolCalls == 1
\* Number of turns of the long conversations of WindowSpec.
MaxWindowTurns == 25
\* Largest queue_size of a StreamConfig, and number of audio chunks a source
\* produces in one behaviour.
MaxQueueSize == 2
MaxChunks == 3
\* Number of call_completion calls in one behaviour.
MaxCalls == 3
\* stop_after_attempt(5) of call_completion.
MaxAttempts == 5
\* Size of the replayed file, of the decoder's pipe and of one chunk of the
\* feeder (chunk_size), in units of bytes.
MaxFileUnits == 3
PipeUnits == 2
ChunkUnits == 2
\* Number of frames the ASR provider sends on its own in one behaviour.
MaxFrames == 3
\* MicManager.sample_rate and the defaults of buffer_duration and
\* max_latency, in milliseconds.
DefaultSampleRate == 16000
DefaultBufferDuration == 100
DefaultMaxLatency == 3000

\* ------------------------------------------------------------ Python values
\* Python's None and a present value.
None == [some |-> FALSE]
Some(v) == [some |-> TRUE, val |-> v]

Min(a, b) == IF a <= b THEN a ELSE b

\* float("inf") of _update_turns: greater than every turn id.
Inf == (IF MaxTurnId >= MaxWindowTurns THEN MaxTurnId ELSE MaxWindowTurns) + 1

\* ------------------------------------------------------------------ turns
\* The observable versions of one ASR turn: its text and its word list.
\* The last one has an empty word list.
TurnVersions ==
    { [text |-> "It", words |-> <<"It">>],
      [text |-> "It works", words |-> <<"It", "works">>],
      [text |-> "", words |-> <<>>] }

Turn(id, v) == [id |-> id, text |-> v.text, words |-> v.words]

Turns == { Turn(id, v) : id \in 1..MaxTurnId, v \in TurnVersions }

\* Snapshots handed to update_turns: lists of turns with distinct ids, in
\* ascending id order.
RECURSIVE SnapshotsFrom(_)
SnapshotsFrom(k) ==
    IF k > MaxTurnId THEN { <<>> }
    ELSE LET rest == SnapshotsFrom(k + 1)
         IN rest \cup { <<Turn(k, v)>> \o s : v \in TurnVersions, s \in rest }

Snapshots == SnapshotsFrom(1)

LlmTranslationEntry(turn) ==
    [turn |-> turn, completion |-> None, translated |-> None]

TranslatedTurn(id, original_id, speaker, text) ==
    [id |-> id, original_id |-> original_id, speaker |-> speaker, text |-> text]

\* --------------------------------------------------------------- variables
VARIABLES
    turns,          \* dict[int, LlmTranslationEntry], in insertion order
    _queued_turns,  \* the snapshot stored by the last update_turns
    has_new_turns,  \* asyncio.Event
    pc,             \* where the driver task is suspended
    req,            \* the completion call in flight
    nUpdates,       \* update_turns calls so far
    lastCall,       \* argument of the latest update_turns call
    callsPending,   \* update_turns calls since the last absorption
    absorbed,       \* what the last absorption did
    nCompletions,   \* completion calls started since the last absorption
    delivered,      \* the list handed to the sink call in progress
    maxEmitted,     \* largest TranslatedTurn id created so far
    lastStep,       \* what the driver did last
    nLogged,        \* exceptions logged since the last absorption
    in_flight       \* completion() calls started and not yet ended

\* What a replay of the session compares: kept only in the runs of DetSpec.
VARIABLES
    recording,      \* whether the two histories below are kept
    asr_events,     \* the snapshots update_turns was called with, in order
    sunk            \* the lists receive_translations was called with, in order

\* cli.py, tui.py: the turn store of the receiver of the ASR events.
VARIABLES
    _source_turns,  \* dict[int, Turn], in insertion order
    lastEvent       \* the turn of the latest receive_turn call

\* remote_llm.py: call_completion under its retry decorator.
VARIABLES
    attempt,        \* the number of the attempt in progress, 0 when none is
    posted,         \* the requests posted by the latest call, in order
    outcomes,       \* what the attempts of the latest call ended with
    raised,         \* what the last call raised, "none" if it returned
    nCalls          \* call_completion calls so far

\* mic.py: the queue yielded by stream_mic and stream_file, and its reader.
VARIABLES
    queue,          \* asyncio.Queue[bytes]: chunk numbers, 0 is b""
    queue_size,     \* config.queue_size, the maxsize of the queue
    scope,          \* where the `async with` of the source is
    taken,          \* the chunks the consumer has got, in order
    produced        \* audio chunks the source has produced so far

\* mic.py: StreamConfig.
VARIABLES
    time_params,    \* sample_rate, buffer_duration and max_latency (ms)
    stream_config   \* the StreamConfig made from them, None before

\* mic.py: stream_mic.
VARIABLES
    run,            \* the flag the capture thread polls
    thread,         \* where the capture thread is
    data            \* the chunk the capture thread holds

\* mic.py: stream_file.
VARIABLES
    stream_t,       \* where the feeder task _stream is
    buf,            \* bytes in the feeder's buffer (in units)
    decoder,        \* the ffmpeg process, as the OS sees it
    returncode,     \* process.returncode, as asyncio has it
    stdout,         \* bytes in the decoder's pipe (in units)
    left,           \* bytes the decoder has still to write (in units)
    signals         \* what stream_file has sent to the decoder

\* aai.py: stream.
VARIABLES
    stream,                 \* where stream() is
    tx_t,                   \* where the task _stream_tx is
    rx_t,                   \* where the task _stream_rx is
    should_send_terminate,  \* asyncio.Event
    termination_received,   \* asyncio.Event
    ws,                     \* the socket: open or closed
    inbound,                \* frames on their way from the provider
    outbound,               \* frames the session has sent
    handled                 \* the frames _stream_rx has read, each with
                            \* what _match_msg did with it

historyVars == <<recording, asr_events, sunk>>

storeVars == <<_source_turns, lastEvent>>

remoteVars == <<attempt, posted, outcomes, raised, nCalls>>

\* The turn store and the remote completion call.
outerVars == <<storeVars, remoteVars>>

\* The translator itself.
driverVars ==
    <<turns, _queued_turns, has_new_turns, pc, req, nUpdates, lastCall,
      callsPending, absorbed, nCompletions, delivered,
      maxEmitted, lastStep, nLogged, in_flight>>

translatorVars == <<driverVars, historyVars, outerVars>>

configVars == <<time_params, stream_config>>

queueVars == <<queue, queue_size, scope, taken, produced, configVars>>

micVars == <<run, thread, data>>

fileVars == <<stream_t, buf, decoder, returncode, stdout, left, signals>>

aaiVars ==
    <<stream, tx_t, rx_t, should_send_terminate, termination_received, ws,
      inbound, outbound, handled>>

\* Everything but the translator.
audioVars == <<queueVars, micVars, fileVars, aaiVars>>

vars == <<translatorVars, audioVars>>

\* ------------------------------------------------------------ dict helpers
HasKey(ts, id) == \E i \in DOMAIN ts : ts[i].turn.id = id

IndexOf(ts, id) == CHOOSE i \in DOMAIN ts : ts[i].turn.id = id

Get(ts, id) == ts[IndexOf(ts, id)]

\* Stable sort of a sequence of <<key, value>> pairs by key (Python sorted).
RECURSIVE InsertPair(_, _)
InsertPair(sorted, p) ==
    IF sorted = <<>> THEN <<p>>
    ELSE IF sorted[Len(sorted)][1] <= p[1] THEN Append(sorted, p)
    ELSE Append(InsertPair(SubSeq(sorted, 1, Len(sorted) - 1), p),
                sorted[Len(sorted)])

RECURSIVE SortPairs(_)
SortPairs(ps) ==
    IF ps = <<>> THEN <<>>
    ELSE InsertPair(SortPairs(SubSeq(ps, 1, Len(ps) - 1)), ps[Len(ps)])

\* sorted(self.turns.values(), key=lambda t: t.turn.id)
SortedEntries(ts) ==
    LET ps == SortPairs([i \in DOMAIN ts |-> <<ts[i].turn.id, ts[i]>>])
    IN [i \in DOMAIN ps |-> ps[i][2]]

\* ----------------------------------------------------------- _update_turns
\* A first loop without the `if not turn.words: continue` test.
RECURSIVE AbsorbLoop_KeepsEmpty(_, _, _)
AbsorbLoop_KeepsEmpty(ts, queued, min_diff) ==
    IF queued = <<>> THEN [turns |-> ts, min_diff |-> min_diff]
    ELSE LET turn == Head(queued)
         IN IF ~HasKey(ts, turn.id)
            THEN AbsorbLoop_KeepsEmpty(Append(ts, LlmTranslationEntry(turn)),
                                       Tail(queued), Min(turn.id, min_diff))
            ELSE IF Get(ts, turn.id).turn.text # turn.text
            THEN AbsorbLoop_KeepsEmpty(
                     [ts EXCEPT ![IndexOf(ts, turn.id)].turn = turn],
                     Tail(queued), Min(turn.id, min_diff))
            ELSE AbsorbLoop_KeepsEmpty(ts, Tail(queued), min_diff)

\* The first loop of _update_turns: returns the dict and min_diff.
RECURSIVE AbsorbLoop(_, _, _)
AbsorbLoop(ts, queued, min_diff) ==
    IF queued = <<>> THEN [turns |-> ts, min_diff |-> min_diff]
    ELSE LET turn == Head(queued)
         IN IF turn.words = <<>>
            THEN AbsorbLoop(ts, Tail(queued), min_diff)
            ELSE IF ~HasKey(ts, turn.id)
            THEN AbsorbLoop(Append(ts, LlmTranslationEntry(turn)),
                            Tail(queued), Min(turn.id, min_diff))
            ELSE IF Get(ts, turn.id).turn.text # turn.text
            THEN AbsorbLoop([ts EXCEPT ![IndexOf(ts, turn.id)].turn = turn],
                            Tail(queued), Min(turn.id, min_diff))
            ELSE AbsorbLoop(ts, Tail(queued), min_diff)

\* An invalidation that spares the entry at min_diff itself.
Invalidate_Strict(ts, min_diff) ==
    [i \in DOMAIN ts |->
        IF ts[i].turn.id > min_diff
        THEN [ts[i] EXCEPT !.completion = None, !.translated = None]
        ELSE ts[i]]

\* An invalidation that blanks the entry at min_diff and no later one.
Invalidate_One(ts, min_diff) ==
    [i \in DOMAIN ts |->
        IF ts[i].turn.id = min_diff
        THEN [ts[i] EXCEPT !.completion = None, !.translated = None]
        ELSE ts[i]]

\* An invalidation that blanks completion and leaves translated.
Invalidate_CompletionOnly(ts, min_diff) ==
    [i \in DOMAIN ts |->
        IF ts[i].turn.id >= min_diff
        THEN [ts[i] EXCEPT !.completion = None]
        ELSE ts[i]]

\* The second loop: blank every entry from min_diff on.
Invalidate(ts, min_diff) ==
    [i \in DOMAIN ts |->
        IF ts[i].turn.id >= min_diff
        THEN [ts[i] EXCEPT !.completion = None, !.translated = None]
        ELSE ts[i]]

\* An absorption whose min_diff starts at 0 instead of infinity.
_update_turns_FromZero(ts, queued) ==
    LET r == AbsorbLoop(ts, queued, 0)
    IN Invalidate(r.turns, r.min_diff)

_update_turns(ts, queued) ==
    LET r == AbsorbLoop(ts, queued, Inf)
    IN Invalidate(r.turns, r.min_diff)

\* ------------------------------------------------------------ LLM messages
\* The arguments strings a tool call may carry: a JSON object with both
\* required fields, a JSON object without "text", and text that is not JSON.
ArgsOk == "{\"speaker\": \"A\", \"text\": \"Bonjour\"}"
ArgsNoText == "{\"speaker\": \"A\"}"
ArgsBadJson == "{\"speaker\": "

\* json.loads: whether it returns, and the dict it returns.
JsonValid(arguments) == arguments # ArgsBadJson

json_loads(arguments) ==
    IF arguments = ArgsOk
    THEN [speaker |-> Some("A"), text |-> Some("Bonjour")]
    ELSE IF arguments = ArgsNoText
    THEN [speaker |-> Some("A"), text |-> None]
    ELSE [speaker |-> None, text |-> None]

\* The function part of a tool call.
Functions ==
    { [name |-> "translate", arguments |-> a] :
          a \in {ArgsOk, ArgsNoText, ArgsBadJson} }
    \cup { [name |-> "pass", arguments |-> "{}"] }

ToolCall(id, function) == [id |-> id, function |-> function]

\* Lists of at most n tool calls; the LLM numbers its calls in order.
RECURSIVE ToolCallLists(_)
ToolCallLists(n) ==
    IF n = 0 THEN { <<>> }
    ELSE LET shorter == ToolCallLists(n - 1)
         IN shorter \cup
            { Append(calls, ToolCall(Len(calls) + 1, f)) :
                  calls \in { c \in shorter : Len(c) = n - 1 }, f \in Functions }

\* choices[0].message of a completion: an assistant message with a
\* tool_calls list, or one with content only.
AssistantMessages ==
    { [role |-> "assistant", tool_calls |-> Some(calls)] :
          calls \in ToolCallLists(MaxToolCalls) }
    \cup { [role |-> "assistant", tool_calls |-> None] }

\* A truth value that takes a completion without tool calls for none.
Truthy_WithToolCalls(completion) ==
    /\ completion.some
    /\ completion.val.tool_calls.some
    /\ completion.val.tool_calls.val # <<>>

\* Truth value of `entry.completion`: None is false, a stored message is a
\* dict with at least its role and is true.
Truthy(completion) == completion.some

\* ----------------------------------------------------- _build_conversation
\* _build_user_message: the words of the turn (one speaker group).
UserMessage(turn) == [role |-> "user", content |-> turn.words]

ToolMessage(tool_call) ==
    [role |-> "tool", tool_call_id |-> tool_call.id, content |-> "Recorded"]

OkMessage == [role |-> "assistant", content |-> "ok"]

\* entry.completion.get("tool_calls") or []
ToolCallsOf(message) ==
    IF message.tool_calls.some THEN message.tool_calls.val ELSE <<>>

\* A next-id counter that counts entries instead of TranslatedTurns.
LenTranslated_PerEntry(entry) == 1

\* len(entry.translated or [])
LenTranslated(entry) ==
    IF entry.translated.some THEN Len(entry.translated.val) ELSE 0

\* A loop that appends the "ok" message only after tool messages.
RECURSIVE BuildLoop_OkAfterTools(_, _, _)
BuildLoop_OkAfterTools(entries, turn_id, conversation) ==
    IF entries = <<>>
    THEN [to_translate |-> None, next_id |-> turn_id,
          conversation |-> conversation]
    ELSE LET entry == Head(entries)
             withUser == Append(conversation, UserMessage(entry.turn))
         IN IF Truthy(entry.completion)
            THEN LET calls == ToolCallsOf(entry.completion.val)
                 IN BuildLoop_OkAfterTools(
                        Tail(entries),
                        turn_id + LenTranslated(entry),
                        withUser \o <<entry.completion.val>>
                            \o [i \in DOMAIN calls |-> ToolMessage(calls[i])]
                            \o (IF calls = <<>> THEN <<>> ELSE <<OkMessage>>))
            ELSE [to_translate |-> Some(entry.turn.id), next_id |-> turn_id,
                  conversation |-> withUser]

RECURSIVE BuildLoop(_, _, _)
BuildLoop(entries, turn_id, conversation) ==
    IF entries = <<>>
    THEN [to_translate |-> None, next_id |-> turn_id,
          conversation |-> conversation]
    ELSE LET entry == Head(entries)
             withUser == Append(conversation, UserMessage(entry.turn))
         IN IF Truthy(entry.completion)
            THEN LET calls == ToolCallsOf(entry.completion.val)
                 IN BuildLoop(
                        Tail(entries),
                        turn_id + LenTranslated(entry),
                        withUser \o <<entry.completion.val>>
                            \o [i \in DOMAIN calls |-> ToolMessage(calls[i])]
                            \o <<OkMessage>>)
            ELSE [to_translate |-> Some(entry.turn.id), next_id |-> turn_id,
                  conversation |-> withUser]

\* keep_turns = 10 + N % 10, the size of the retention window for N entries.
Keep(n) == 10 + (n % 10)

\* The entries of the retention window: the last Keep(N) of N sorted entries.
Window(entries) ==
    LET N == Len(entries)
    IN IF N > Keep(N) THEN SubSeq(entries, N - Keep(N) + 1, N) ELSE entries

\* A conversation whose next id counts the entries of the window alone.
_build_conversation_Window(ts) == BuildLoop(Window(SortedEntries(ts)), 0, <<>>)

\* A conversation that leaves the cached assistant messages out.
_build_conversation_NoCache(ts) ==
    LET built == BuildLoop(SortedEntries(ts), 0, <<>>)
    IN [built EXCEPT !.conversation =
            SelectSeq(built.conversation, LAMBDA m : m.role = "user")]

_build_conversation(ts) == BuildLoop(SortedEntries(ts), 0, <<>>)

\* ------------------------------------------------------ _decode_completion
\* The loop over the tool calls: the TranslatedTurns produced, or raised
\* when json.loads or a parsed[...] lookup raises.
RECURSIVE DecodeCalls(_, _, _, _)
DecodeCalls(tool_calls, turn, next_id, out) ==
    IF tool_calls = <<>> THEN [raised |-> FALSE, out |-> out]
    ELSE LET f == Head(tool_calls).function
         IN IF f.name = "translate"
            THEN IF ~JsonValid(f.arguments)
                 THEN [raised |-> TRUE, out |-> out]
                 ELSE LET parsed == json_loads(f.arguments)
                      IN IF ~parsed.speaker.some \/ ~parsed.text.some
                         THEN [raised |-> TRUE, out |-> out]
                         ELSE DecodeCalls(
                                  Tail(tool_calls), turn, next_id + 1,
                                  Append(out,
                                         TranslatedTurn(next_id, turn.id,
                                                        parsed.speaker.val,
                                                        parsed.text.val)))
            ELSE DecodeCalls(Tail(tool_calls), turn, next_id, out)

_decode_completion(turn, next_id, message) ==
    IF message.role = "assistant" /\ message.tool_calls.some
    THEN DecodeCalls(message.tool_calls.val, turn, next_id, <<>>)
    ELSE [raised |-> FALSE, out |-> <<>>]

\* ------------------------------------------------------------------ state
\* The sorted list process() hands to receive_translations.
RECURSIVE Flatten(_)
Flatten(ts) ==
    IF ts = <<>> THEN <<>>
    ELSE (IF Head(ts).translated.some THEN Head(ts).translated.val ELSE <<>>)
         \o Flatten(Tail(ts))

\* A sink list left in the order of the dict.
SinkList_Unsorted(ts) == Flatten(ts)

SinkList(ts) ==
    LET all == Flatten(ts)
        ps == SortPairs([i \in DOMAIN all |-> <<all[i].id, all[i]>>])
    IN [i \in DOMAIN ps |-> ps[i][2]]

NoRequest == [to_translate |-> None, next_id |-> 0, conversation |-> <<>>]

NoAbsorption == [reset |-> 0, dirty |-> 0, calls |-> 0]

IsDirty(entry) == ~Truthy(entry.completion)

DirtyCount(ts) == Cardinality({ i \in DOMAIN ts : IsDirty(ts[i]) })

Max(a, b) == IF a >= b THEN a ELSE b

RECURSIVE MaxId(_, _)
MaxId(out, m) ==
    IF out = <<>> THEN m ELSE MaxId(Tail(out), Max(m, Head(out).id))

\* No source is open and no session is running.
AudioInit ==
    /\ queue = <<>>
    /\ queue_size = 0
    /\ scope = "none"
    /\ taken = <<>>
    /\ produced = 0
    /\ run = FALSE
    /\ thread = "none"
    /\ data = 0
    /\ stream_t = [pc |-> "none", exc |-> "none"]
    /\ buf = 0
    /\ decoder = "none"
    /\ returncode = None
    /\ stdout = 0
    /\ left = 0
    /\ signals = {}
    /\ stream = [pc |-> "none", exc |-> "none"]
    /\ tx_t = "none"
    /\ rx_t = "none"
    /\ should_send_terminate = FALSE
    /\ termination_received = FALSE
    /\ ws = "none"
    /\ inbound = <<>>
    /\ outbound = <<>>
    /\ handled = <<>>

\* The histories are empty; `on` tells whether they are kept.
HistoryInit(on) ==
    /\ recording = on
    /\ asr_events = <<>>
    /\ sunk = <<>>

\* A history with `value` added, when histories are kept.
Record(history, value) ==
    IF recording THEN Append(history, value) ELSE history

\* The translator after its construction.
TranslatorInit ==
    /\ turns = <<>>
    /\ _queued_turns = <<>>
    /\ has_new_turns = FALSE
    /\ pc = "wait"
    /\ req = NoRequest
    /\ nUpdates = 0
    /\ lastCall = <<>>
    /\ callsPending = 0
    /\ absorbed = NoAbsorption
    /\ nCompletions = 0
    /\ delivered = <<>>
    /\ maxEmitted = -1
    /\ lastStep = "init"
    /\ nLogged = 0
    /\ in_flight = 0

\* The turn store is empty and no completion call has been made.
OuterInit ==
    /\ _source_turns = <<>>
    /\ lastEvent = None
    /\ attempt = 0
    /\ posted = <<>>
    /\ outcomes = <<>>
    /\ raised = "none"
    /\ nCalls = 0

\* The arguments a StreamConfig is made from, none made yet.
ConfigInit(params) ==
    /\ time_params = params
    /\ stream_config = None

\* MicManager() and make_stream_config() with their defaults.
DefaultTimeParams ==
    [sample_rate |-> DefaultSampleRate,
     buffer_duration |-> DefaultBufferDuration,
     max_latency |-> DefaultMaxLatency]

Init ==
    /\ HistoryInit(FALSE) /\ TranslatorInit /\ AudioInit /\ OuterInit
    /\ ConfigInit(DefaultTimeParams)

\* ----------------------------------------------------------------- actions
\* An update_turns that keeps the snapshot already waiting to be absorbed.
update_turns_KeepsFirst(snapshot) ==
    /\ pc # "done"
    /\ nUpdates < MaxUpdates
    /\ _queued_turns' = IF has_new_turns THEN _queued_turns ELSE snapshot
    /\ has_new_turns' = TRUE
    /\ nUpdates' = nUpdates + 1
    /\ lastCall' = snapshot
    /\ callsPending' = callsPending + 1
    /\ asr_events' = Record(asr_events, snapshot)
    /\ UNCHANGED <<turns, pc, req, absorbed, nCompletions, delivered,
                   maxEmitted, lastStep, nLogged, in_flight, audioVars,
                   outerVars, recording, sunk>>

\* The statements of update_turns: the snapshot is stored and the flag set.
QueueTurns(snapshot) ==
    /\ pc # "done"
    /\ nUpdates < MaxUpdates
    /\ _queued_turns' = snapshot
    /\ has_new_turns' = TRUE
    /\ nUpdates' = nUpdates + 1
    /\ lastCall' = snapshot
    /\ callsPending' = callsPending + 1
    /\ asr_events' = Record(asr_events, snapshot)
    /\ UNCHANGED <<turns, pc, req, absorbed, nCompletions, delivered,
                   maxEmitted, lastStep, nLogged, in_flight, audioVars,
                   recording, sunk>>

\* An update_turns that translates in the caller's task: besides storing the
\* snapshot it starts a completion() call of its own.
update_turns_StartsCall(snapshot) ==
    /\ pc # "done"
    /\ nUpdates < MaxUpdates
    /\ _queued_turns' = snapshot
    /\ has_new_turns' = TRUE
    /\ nUpdates' = nUpdates + 1
    /\ lastCall' = snapshot
    /\ callsPending' = callsPending + 1
    /\ asr_events' = Record(asr_events, snapshot)
    /\ in_flight' = in_flight + 1
    /\ UNCHANGED <<turns, pc, req, absorbed, nCompletions, delivered,
                   maxEmitted, lastStep, nLogged, audioVars, outerVars,
                   recording, sunk>>

\* An update_turns that absorbs the snapshot itself, in the caller's task.
update_turns_Absorbs(snapshot) ==
    /\ pc # "done"
    /\ nUpdates < MaxUpdates
    /\ _queued_turns' = snapshot
    /\ has_new_turns' = TRUE
    /\ turns' = _update_turns(turns, snapshot)
    /\ nUpdates' = nUpdates + 1
    /\ lastCall' = snapshot
    /\ callsPending' = callsPending + 1
    /\ asr_events' = Record(asr_events, snapshot)
    /\ UNCHANGED <<pc, req, absorbed, nCompletions, delivered,
                   maxEmitted, lastStep, nLogged, in_flight, audioVars,
                   outerVars, recording, sunk>>

\* update_turns(turns), called by the task that receives the ASR events.
update_turns(snapshot) == QueueTurns(snapshot) /\ UNCHANGED outerVars

\* The calls in flight once the await the driver is suspended at has ended:
\* `await self.completion(...)` ends the one call the driver had started.
AfterAwait == IF pc = "completion" THEN in_flight - 1 ELSE in_flight

\* The first half of _translate_next_turn, up to the await of completion():
\* the driver is left waiting for the completion, or back at the wait.
StartTranslate(ts, calls) ==
    LET built == _build_conversation(ts)
    IN IF built.to_translate.some
       THEN /\ pc' = "completion"
            /\ req' = built
            /\ nCompletions' = calls + 1
            /\ in_flight' = AfterAwait + 1
       ELSE /\ pc' = "wait"
            /\ req' = NoRequest
            /\ nCompletions' = calls
            /\ in_flight' = AfterAwait

\* process(): the wait returns, the flag is cleared, the queued snapshot is
\* absorbed and the first translation is started.
Absorb ==
    /\ pc = "wait"
    /\ has_new_turns
    /\ has_new_turns' = FALSE
    /\ turns' = _update_turns(turns, _queued_turns)
    /\ StartTranslate(turns', 0)
    /\ absorbed' =
           [reset |-> Cardinality({ i \in DOMAIN turns :
                                     ~IsDirty(turns[i]) /\ IsDirty(turns'[i]) }),
            dirty |-> DirtyCount(turns'),
            calls |-> callsPending]
    /\ callsPending' = 0
    /\ nLogged' = 0
    /\ lastStep' = "absorb"
    /\ UNCHANGED <<_queued_turns, nUpdates, lastCall, delivered, maxEmitted, audioVars, outerVars,
                   historyVars>>

\* A driver without `except Exception`: the exception ends the task.
Logged_Propagates(step) ==
    /\ pc' = "done"
    /\ req' = NoRequest
    /\ nLogged' = nLogged + 1
    /\ lastStep' = step
    /\ delivered' = <<>>
    /\ in_flight' = AfterAwait
    /\ UNCHANGED <<turns, _queued_turns, has_new_turns, nUpdates, lastCall,
                   callsPending, absorbed, nCompletions, maxEmitted, audioVars, outerVars,
                   historyVars>>

\* An exception reaches `except Exception` of process(): it is logged and
\* the driver goes back to the wait.
Logged(step) ==
    /\ pc' = "wait"
    /\ req' = NoRequest
    /\ nLogged' = nLogged + 1
    /\ lastStep' = step
    /\ delivered' = <<>>
    /\ in_flight' = AfterAwait
    /\ UNCHANGED <<turns, _queued_turns, has_new_turns, nUpdates, lastCall,
                   callsPending, absorbed, nCompletions, maxEmitted, audioVars, outerVars,
                   historyVars>>

\* A driver that calls the sink only once no dirty entry is left.
CompletionReturns_DeliversAtEnd(message) ==
    /\ pc = "completion"
    /\ LET id == req.to_translate.val
           d == _decode_completion(Get(turns, id).turn, req.next_id, message)
       IN IF d.raised
          THEN Logged("decode_error")
          ELSE /\ turns' = [turns EXCEPT
                                ![IndexOf(turns, id)].completion = Some(message),
                                ![IndexOf(turns, id)].translated = Some(d.out)]
               /\ maxEmitted' = MaxId(d.out, maxEmitted)
               /\ lastStep' = "translated"
               /\ sunk' = IF DirtyCount(turns') > 0 THEN sunk
                                ELSE Record(sunk, SinkList(turns'))
               /\ IF DirtyCount(turns') > 0
                  THEN /\ StartTranslate(turns', nCompletions)
                       /\ delivered' = <<>>
                  ELSE /\ pc' = "sink"
                       /\ delivered' = SinkList(turns')
                       /\ in_flight' = AfterAwait
                       /\ UNCHANGED <<req, nCompletions>>
               /\ UNCHANGED <<_queued_turns, has_new_turns, nUpdates,
                              lastCall, callsPending, absorbed, nLogged, audioVars, outerVars,
                              recording, asr_events>>

\* The second half of _translate_next_turn: completion() returns `message`,
\* it is decoded and stored, and process() hands the sorted list to the sink.
CompletionReturns(message) ==
    /\ pc = "completion"
    /\ LET id == req.to_translate.val
           d == _decode_completion(Get(turns, id).turn, req.next_id, message)
       IN IF d.raised
          THEN Logged("decode_error")
          ELSE /\ turns' = [turns EXCEPT
                                ![IndexOf(turns, id)].completion = Some(message),
                                ![IndexOf(turns, id)].translated = Some(d.out)]
               /\ delivered' = SinkList(turns')
               /\ sunk' = Record(sunk, delivered')
               /\ maxEmitted' = MaxId(d.out, maxEmitted)
               /\ pc' = "sink"
               /\ in_flight' = AfterAwait
               /\ lastStep' = "translated"
               /\ UNCHANGED <<_queued_turns, has_new_turns, req, nUpdates,
                              lastCall, callsPending, absorbed, nCompletions,
                              nLogged, audioVars, outerVars, recording, asr_events>>

\* completion() raises (HTTP error, timeout, malformed body).
CompletionRaises ==
    /\ pc = "completion"
    /\ Logged("completion_error")

\* A driver that clears the flag when its inner loop ends instead of right
\* after the wait.
SinkReturns_ClearsFlag ==
    /\ pc = "sink"
    /\ StartTranslate(turns, nCompletions)
    /\ has_new_turns' = IF pc' = "wait" THEN FALSE ELSE has_new_turns
    /\ delivered' = <<>>
    /\ lastStep' = "sink_returned"
    /\ UNCHANGED <<turns, _queued_turns, nUpdates, lastCall, callsPending,
                   absorbed, maxEmitted, nLogged, audioVars, outerVars,
                   historyVars>>

\* receive_translations returns: the inner loop calls _translate_next_turn.
SinkReturns ==
    /\ pc = "sink"
    /\ StartTranslate(turns, nCompletions)
    /\ delivered' = <<>>
    /\ lastStep' = "sink_returned"
    /\ UNCHANGED <<turns, _queued_turns, has_new_turns, nUpdates, lastCall,
                   callsPending, absorbed, maxEmitted, nLogged, audioVars, outerVars,
                   historyVars>>

\* receive_translations raises.
SinkRaises ==
    /\ pc = "sink"
    /\ Logged("sink_error")

\* The driver task is cancelled at one of its awaits.
Cancel ==
    /\ pc \in {"wait", "completion", "sink"}
    /\ pc' = "done"
    /\ in_flight' = AfterAwait
    /\ lastStep' = "cancelled"
    /\ UNCHANGED <<turns, _queued_turns, has_new_turns, req, nUpdates, lastCall,
                   callsPending, absorbed, nCompletions, delivered,
                   maxEmitted, nLogged, audioVars, outerVars,
                   historyVars>>

Next ==
    \/ \E snapshot \in Snapshots : update_turns(snapshot)
    \/ Absorb
    \/ \E message \in AssistantMessages : CompletionReturns(message)
    \/ CompletionRaises
    \/ SinkReturns
    \/ SinkRaises
    \/ Cancel

Spec == Init /\ [][Next]_vars

\* completion() returns a message that _decode_completion accepts.
CompletionDecodes ==
    \E message \in AssistantMessages :
        /\ pc = "completion"
        /\ Len(ToolCallsOf(message)) <= MaxLiveToolCalls
        /\ ~_decode_completion(Get(turns, req.to_translate.val).turn,
                               req.next_id, message).raised
        /\ CompletionReturns(message)

\* The runs in which no call raises and the driver is not cancelled. The
\* event loop resumes the driver when its wait, its completion call or its
\* sink call is over.
UpdateLive ==
    \E snapshot \in Snapshots :
        nUpdates < MaxLiveUpdates /\ update_turns(snapshot)

\* The driver's own steps; at most one of them is enabled at a time.
DriverStep == Absorb \/ CompletionDecodes \/ SinkReturns

NextLive == UpdateLive \/ DriverStep

LiveSpec == Init /\ [][NextLive]_vars /\ WF_vars(DriverStep)

\* completion() returns a message, which _decode_completion accepts or not.
CompletionLive ==
    \E message \in AssistantMessages :
        /\ Len(ToolCallsOf(message)) <= MaxLiveToolCalls
        /\ CompletionReturns(message)

\* Every await of the driver ends, by returning or by raising.
AwaitEnds ==
    Absorb \/ CompletionLive \/ CompletionRaises \/ SinkReturns \/ SinkRaises

\* The runs in which calls may raise and the driver may be cancelled.
NextFair == UpdateLive \/ AwaitEnds \/ Cancel

FairSpec == Init /\ [][NextFair]_vars /\ WF_vars(AwaitEnds)

\* ------------------------------------------------ responses that delete
\* The arguments of a delete_turn call that names the TranslatedTurn 0.
ArgsDelete == "{\"turn_id\": 0}"

\* parsed["turn_id"] of a delete_turn call.
turn_id(arguments) == IF arguments = ArgsDelete THEN 0 ELSE -1

\* The calls of the LLM responses of ToolSpec: a translate call with valid
\* arguments, a delete_turn call and a call of an unknown tool.
ToolFunctions ==
    { [name |-> "translate", arguments |-> ArgsOk],
      [name |-> "delete_turn", arguments |-> ArgsDelete],
      [name |-> "pass", arguments |-> "{}"] }

\* Lists of at most n tool calls drawn from `functions`.
RECURSIVE CallLists(_, _)
CallLists(n, functions) ==
    IF n = 0 THEN { <<>> }
    ELSE LET shorter == CallLists(n - 1, functions)
         IN shorter \cup
            { Append(calls, ToolCall(Len(calls) + 1, f)) :
                  calls \in { c \in shorter : Len(c) = n - 1 }, f \in functions }

ToolResponses ==
    { [role |-> "assistant", tool_calls |-> Some(calls)] :
          calls \in CallLists(MaxToolCalls, ToolFunctions) }

\* The runs in which the LLM also calls delete_turn and no call raises.
ToolNext ==
    \/ \E snapshot \in Snapshots : update_turns(snapshot)
    \/ Absorb
    \/ \E message \in ToolResponses : CompletionReturns(message)
    \/ SinkReturns

ToolSpec == Init /\ [][ToolNext]_vars

\* ------------------------------------------------------ long conversations
\* The two texts of a turn of a long conversation.
Short == [text |-> "It", words |-> <<"It">>]
Long == [text |-> "It works", words |-> <<"It", "works">>]

\* The snapshot of the first n turns of a session.
FirstTurns(n) == [i \in 1..n |-> Turn(i, Short)]

\* The same snapshot after the ASR has revised the turn `id`.
Revised(snapshot, id) == [snapshot EXCEPT ![id] = Turn(id, Long)]

\* The snapshots of WindowSpec: the session while its turns are still as
\* many as its retention window (19 turns of 25), the session at its longest,
\* and the longest one with its last but one turn revised.
WindowSnapshots ==
    { FirstTurns(n) : n \in {MaxWindowTurns - 6, MaxWindowTurns} }
    \cup { Revised(FirstTurns(MaxWindowTurns), MaxWindowTurns - 1) }

\* The LLM answers every request with one translate call.
WindowResponse ==
    [role |-> "assistant",
     tool_calls |->
         Some(<<ToolCall(1, [name |-> "translate", arguments |-> ArgsOk])>>)]

\* The runs of a session of MaxWindowTurns turns in which no call raises.
WindowNext ==
    \/ \E snapshot \in WindowSnapshots : update_turns(snapshot)
    \/ Absorb
    \/ CompletionReturns(WindowResponse)
    \/ SinkReturns

WindowSpec == Init /\ [][WindowNext]_vars

\* ---------------------------------------------------------------- replays
\* The number of ASR words in the user messages of a conversation.
RECURSIVE Words(_)
Words(conversation) ==
    IF conversation = <<>> THEN 0
    ELSE (IF Head(conversation).role = "user"
          THEN Len(Head(conversation).content) ELSE 0)
         + Words(Tail(conversation))

\* An LLM whose response is a function of the conversation it is sent: it
\* answers with zero, one or two translate calls, depending on the context.
Respond(conversation) ==
    LET translate == [name |-> "translate", arguments |-> ArgsOk]
    IN [role |-> "assistant",
        tool_calls |->
            Some(SubSeq(<<ToolCall(1, translate), ToolCall(2, translate)>>,
                        1, Words(conversation) % 3))]

\* completion() returns the response of that LLM.
CompletionResponds ==
    /\ pc = "completion"
    /\ CompletionReturns(Respond(req.conversation))

DetInit ==
    /\ HistoryInit(TRUE) /\ TranslatorInit /\ AudioInit /\ OuterInit
    /\ ConfigInit(DefaultTimeParams)

\* The runs against that LLM, with the update_turns calls and the deliveries
\* to the sink recorded.
DetNext == UpdateLive \/ Absorb \/ CompletionResponds \/ SinkReturns

DetSpec == DetInit /\ [][DetNext]_vars

\* One pass of _translate_next_turn over the entries `ts`, which hold a
\* dirty entry, against that LLM.
TranslateNext(ts) ==
    LET built == _build_conversation(ts)
        id == built.to_translate.val
        message == Respond(built.conversation)
        d == _decode_completion(Get(ts, id).turn, built.next_id, message)
    IN [ts EXCEPT ![IndexOf(ts, id)] =
           [@ EXCEPT !.completion = Some(message), !.translated = Some(d.out)]]

\* The inner loop of process() run to its end: the entries, and `out`
\* followed by the lists delivered on the way.
RECURSIVE Drain(_, _)
Drain(ts, out) ==
    IF ~_build_conversation(ts).to_translate.some
    THEN [turns |-> ts, sunk |-> out]
    ELSE LET next == TranslateNext(ts)
         IN Drain(next, Append(out, SinkList(next)))

\* The lists delivered by the run in which every snapshot of `events` is
\* absorbed and translated to the end before the next update_turns call.
RECURSIVE RunInTurn(_, _, _)
RunInTurn(ts, events, out) ==
    IF events = <<>> THEN out
    ELSE LET r == Drain(_update_turns(ts, Head(events)), out)
         IN RunInTurn(r.turns, Tail(events), r.sunk)

\* The entries `ts` blanked and translated from scratch.
Scratch(ts) ==
    LET blank == [i \in DOMAIN ts |-> LlmTranslationEntry(ts[i].turn)]
    IN Drain(SubSeq(blank, 1, Len(ts)), <<>>).turns

\* --------------------------------------------------------- the turn store
\* A turn whose text is a blank and which has no words.
Whitespace == [text |-> " ", words |-> <<>>]

\* The turn events the ASR may send.
TurnEvents == Turns \cup { Turn(id, Whitespace) : id \in 1..MaxTurnId }

\* str.strip, on the texts of TurnEvents.
strip(text) == IF text = " " THEN "" ELSE text

\* A store kept in the order of the turn ids.
SetItem_Sorted(store, turn) ==
    LET others == SelectSeq(store, LAMBDA t : t.id # turn.id)
    IN SelectSeq(others, LAMBDA t : t.id < turn.id) \o <<turn>>
       \o SelectSeq(others, LAMBDA t : t.id > turn.id)

\* self._source_turns[turn.id] = turn: a known key keeps its place in the
\* dict, a new key goes to the end.
SetItem(store, turn) ==
    IF \E i \in DOMAIN store : store[i].id = turn.id
    THEN [i \in DOMAIN store |->
             IF store[i].id = turn.id THEN turn ELSE store[i]]
    ELSE Append(store, turn)

\* list(self._source_turns.values())
Values(store) == store

\* receive_turn(turn) of the receiver of the ASR events, its translator set.
receive_turn(turn) ==
    /\ lastEvent' = Some(turn)
    /\ IF strip(turn.text) = ""
       THEN UNCHANGED <<_source_turns, driverVars, historyVars, audioVars>>
       ELSE /\ _source_turns' = SetItem(_source_turns, turn)
            /\ QueueTurns(Values(_source_turns'))
    /\ UNCHANGED remoteVars

\* A session: the ASR events reach the turn store, which feeds the translator.
StoreNext ==
    \/ \E turn \in TurnEvents : receive_turn(turn)
    \/ DriverStep

StoreSpec == Init /\ [][StoreNext]_vars

\* ------------------------------------------------ remote_llm.py: the retry
\* The request bodies call_completion may be called with.
Requests == {"request_1", "request_2"}

\* The bodies of an error response: the error the provider sends when the
\* model did not call a tool, another error, and a body that is not JSON.
BodyToolUseFailed == "{\"error\": {\"code\": \"tool_use_failed\"}}"
BodyOtherError == "{\"error\": {\"code\": \"invalid_request_error\"}}"
BodyNotJson == "<html>Bad Gateway</html>"

\* What an attempt ends with: the response is returned, raise_for_status
\* raises for an error response, or client.post raises.
Returned == [type |-> "returned", body |-> "{}"]

Exceptions ==
    { [type |-> "HTTPStatusError", body |-> b] :
          b \in {BodyToolUseFailed, BodyOtherError, BodyNotJson} }
    \cup { [type |-> "ConnectError", body |-> ""] }

\* A retry condition that holds for every HTTP error.
is_missing_tool_call_AnyStatus(exception) == exception.type = "HTTPStatusError"

is_missing_tool_call(exception) ==
    IF exception.type # "HTTPStatusError" THEN FALSE
    ELSE IF exception.body = BodyNotJson THEN FALSE
    ELSE exception.body = BodyToolUseFailed

\* call_completion is called: the first attempt posts the request.
CallStarts(request) ==
    /\ attempt = 0
    /\ nCalls < MaxCalls
    /\ nCalls' = nCalls + 1
    /\ attempt' = 1
    /\ posted' = <<request>>
    /\ outcomes' = <<>>
    /\ raised' = "none"
    /\ UNCHANGED <<driverVars, historyVars, storeVars, audioVars>>

\* The attempt in progress returns the response: so does the call.
AttemptReturns ==
    /\ attempt > 0
    /\ attempt' = 0
    /\ outcomes' = Append(outcomes, Returned)
    /\ raised' = "none"
    /\ UNCHANGED <<posted, nCalls, driverVars, historyVars, storeVars, audioVars>>

\* The attempt in progress raises: @retry calls the function again with the
\* same arguments, or gives up with RetryError, or lets the exception through.
AttemptRaises(exception) ==
    /\ attempt > 0
    /\ outcomes' = Append(outcomes, exception)
    /\ IF ~is_missing_tool_call(exception)
       THEN /\ attempt' = 0
            /\ raised' = exception.type
            /\ UNCHANGED posted
       ELSE IF attempt >= MaxAttempts
       THEN /\ attempt' = 0
            /\ raised' = "RetryError"
            /\ UNCHANGED posted
       ELSE /\ attempt' = attempt + 1
            /\ raised' = "none"
            /\ posted' = Append(posted, posted[1])
    /\ UNCHANGED <<nCalls, driverVars, historyVars, storeVars, audioVars>>

RemoteNext ==
    \/ \E request \in Requests : CallStarts(request)
    \/ AttemptReturns
    \/ \E exception \in Exceptions : AttemptRaises(exception)

RemoteSpec == Init /\ [][RemoteNext]_vars

TypeOK ==
    /\ pc \in {"wait", "completion", "sink", "done"}
    /\ has_new_turns \in BOOLEAN
    /\ nUpdates \in 0..MaxUpdates

\* ------------------------------------------------------- the audio queue
\* asyncio.Queue.full(): a maxsize of zero or less is an unbounded queue.
Full(q, maxsize) == maxsize > 0 /\ Len(q) >= maxsize

\* Chunks put on the queue so far: those taken and those waiting.
Put == taken \o queue

\* --------------------------------------------------- mic.py: stream_mic
\* stream_mic(index, config): the queue is created and the capture thread
\* started; the scope body runs.
stream_mic(config) ==
    /\ scope = "none"
    /\ stream.pc = "none"
    /\ scope' = "mic"
    /\ queue_size' = config.queue_size
    /\ UNCHANGED configVars
    /\ queue' = <<>>
    /\ run' = TRUE
    /\ thread' = "test"
    /\ UNCHANGED <<taken, produced, data, fileVars, aaiVars, translatorVars>>

\* _stream: `while run and ...`.
ThreadTests ==
    /\ thread = "test"
    /\ thread' = IF run THEN "read" ELSE "done"
    /\ UNCHANGED <<run, data, queueVars, fileVars, aaiVars, translatorVars>>

\* _stream: stream.read(...) returns a chunk, or nothing (the loop ends).
ThreadReads(chunk) ==
    /\ thread = "read"
    /\ scope # "mic" \/ produced < MaxChunks
    /\ chunk \in {0, produced + 1}
    /\ data' = chunk
    /\ produced' = IF chunk = 0 THEN produced ELSE produced + 1
    /\ thread' = IF chunk = 0 THEN "done" ELSE "put"
    /\ UNCHANGED <<run, queue, queue_size, configVars, scope, taken, fileVars, aaiVars,
                   translatorVars>>

\* _stream: run_coroutine_threadsafe(queue.put(data), loop).result() returns,
\* once the queue has room.
ThreadPuts ==
    /\ thread = "put"
    /\ ~Full(queue, queue_size)
    /\ queue' = Append(queue, data)
    /\ thread' = "test"
    /\ UNCHANGED <<run, data, queue_size, configVars, scope, taken, produced, fileVars,
                   aaiVars, translatorVars>>

ThreadStep ==
    \/ ThreadTests
    \/ \E chunk \in 0..MaxChunks + 1 : ThreadReads(chunk)
    \/ ThreadPuts

\* The `finally` of stream_mic: the scope is left.
MicScopeExits ==
    /\ scope = "mic"
    /\ run' = FALSE
    /\ scope' = "left"
    /\ UNCHANGED <<thread, data, queue, queue_size, configVars, taken, produced, fileVars,
                   aaiVars, translatorVars>>

\* -------------------------------------------------- mic.py: stream_file
\* The feeder task is suspended: in sleep, in a read with nothing to read,
\* or in a put on a full queue.
AtEof == decoder \in {"exit_0", "exit_1", "exit_term"} /\ stdout = 0

Suspended ==
    \/ stream_t.pc = "sleep"
    \/ stream_t.pc = "read" /\ stdout = 0 /\ ~AtEof
    \/ stream_t.pc \in {"put", "final_put"} /\ Full(queue, queue_size)

\* The event loop is free to run another task or callback.
LoopIdle == stream_t.pc \in {"none", "done", "failed", "cancelled"} \/ Suspended

\* The body of the scope takes a chunk from the queue.
ConsumerGets ==
    /\ scope \in {"mic", "file"}
    /\ LoopIdle
    /\ queue # <<>>
    /\ queue' = Tail(queue)
    /\ taken' = Append(taken, Head(queue))
    /\ UNCHANGED <<queue_size, configVars, scope, produced, micVars, fileVars, aaiVars,
                   translatorVars>>

\* stream_file(file_path, config): the queue is created, the decoder and the
\* feeder task are started; the scope body runs. The file holds `size` units.
stream_file(config, size) ==
    /\ scope = "none"
    /\ stream.pc = "none"
    /\ scope' = "file"
    /\ queue_size' = config.queue_size
    /\ UNCHANGED configVars
    /\ queue' = <<>>
    /\ decoder' = "running"
    /\ left' = size
    /\ stream_t' = [pc |-> "read", exc |-> "none"]
    /\ UNCHANGED <<taken, produced, buf, returncode, stdout, signals,
                   micVars, aaiVars, translatorVars>>

\* The decoder writes one unit to its pipe.
DecoderWrites ==
    /\ decoder = "running"
    /\ left > 0
    /\ stdout < PipeUnits
    /\ stdout' = stdout + 1
    /\ left' = left - 1
    /\ UNCHANGED <<stream_t, buf, decoder, returncode, signals, queueVars,
                   micVars, aaiVars, translatorVars>>

\* The decoder exits: at the end of the file, on an error, or on a signal.
\* Its pipe is closed.
DecoderExits(how) ==
    /\ decoder = "running"
    /\ \/ how = "exit_0" /\ left = 0
       \/ how = "exit_1"
       \/ how = "exit_term" /\ signals # {}
    /\ decoder' = how
    /\ UNCHANGED <<stream_t, buf, returncode, stdout, left, signals,
                   queueVars, micVars, aaiVars, translatorVars>>

\* The event loop learns that the decoder has exited: process.returncode.
DecoderReaped ==
    /\ decoder \in {"exit_0", "exit_1", "exit_term"}
    /\ returncode = None
    /\ LoopIdle
    /\ returncode' = Some(IF decoder = "exit_0" THEN 0
                          ELSE IF decoder = "exit_1" THEN 1 ELSE -15)
    /\ UNCHANGED <<stream_t, buf, decoder, stdout, left, signals, queueVars,
                   micVars, aaiVars, translatorVars>>

\* _stream: process.stdout.read(chunk_size) returns n units, or b"" at the
\* end of the pipe; then `while process.returncode is None` is tested again,
\* with no suspension when the pipe is at its end.
FeederReads(n) ==
    /\ stream_t.pc = "read"
    /\ IF stdout > 0
       THEN /\ n \in 1..Min(stdout, ChunkUnits)
            /\ stdout' = stdout - n
            /\ buf' = buf + n
            /\ stream_t' = [stream_t EXCEPT
                                !.pc = IF buf' >= ChunkUnits THEN "put"
                                       ELSE "read"]
       ELSE /\ AtEof
            /\ n = 1
            /\ stream_t' = [stream_t EXCEPT
                                !.pc = IF returncode = None THEN "spin"
                                       ELSE "final_put"]
            /\ UNCHANGED <<stdout, buf>>
    /\ UNCHANGED <<decoder, returncode, left, signals, queueVars, micVars,
                   aaiVars, translatorVars>>

\* _stream: queue.put(buf[:chunk_size]) returns, once the queue has room.
FeederPuts ==
    /\ stream_t.pc = "put"
    /\ ~Full(queue, queue_size)
    /\ queue' = Append(queue, produced + 1)
    /\ produced' = produced + 1
    /\ buf' = buf - ChunkUnits
    /\ stream_t' = [stream_t EXCEPT !.pc = "sleep"]
    /\ UNCHANGED <<queue_size, configVars, scope, taken, decoder, returncode, stdout,
                   left, signals, micVars, aaiVars, translatorVars>>

\* _stream: asyncio.sleep(chunk_duration) returns.
FeederWakes ==
    /\ stream_t.pc = "sleep"
    /\ stream_t' = [stream_t EXCEPT
                        !.pc = IF buf >= ChunkUnits THEN "put" ELSE "read"]
    /\ UNCHANGED <<buf, decoder, returncode, stdout, left, signals,
                   queueVars, micVars, aaiVars, translatorVars>>

\* _stream, `finally`: queue.put(b"") returns, once the queue has room, and
\* the task ends: by RuntimeError, by the CancelledError in flight, or
\* normally.
FeederEnds ==
    /\ stream_t.pc = "final_put"
    /\ ~Full(queue, queue_size)
    /\ queue' = Append(queue, 0)
    /\ stream_t' = [stream_t EXCEPT
                        !.pc = IF returncode = Some(1) THEN "failed"
                               ELSE IF stream_t.exc = "cancelled"
                               THEN "cancelled" ELSE "done"]
    /\ UNCHANGED <<queue_size, configVars, scope, taken, produced, buf, decoder,
                   returncode, stdout, left, signals, micVars, aaiVars,
                   translatorVars>>

FeederStep ==
    \/ \E n \in 1..ChunkUnits : FeederReads(n)
    \/ FeederPuts
    \/ FeederWakes
    \/ FeederEnds

\* A task cancelled at its await: the CancelledError is raised there. In the
\* `finally` of _stream it ends the task; elsewhere it enters the `finally`.
Cancelled(t) ==
    IF t.pc \in {"done", "failed", "cancelled"} THEN t
    ELSE IF t.pc = "final_put" THEN [pc |-> "cancelled", exc |-> "cancelled"]
    ELSE [pc |-> "final_put", exc |-> "cancelled"]

\* The `finally` of stream_file: the feeder is cancelled unless it is done,
\* the decoder is sent SIGTERM, and the feeder is awaited.
FileScopeExits ==
    /\ scope = "file"
    /\ LoopIdle
    /\ stream_t' = Cancelled(stream_t)
    /\ signals' = signals \cup {"TERM"}
    /\ scope' = "await_stream_t"
    /\ UNCHANGED <<queue, queue_size, configVars, taken, produced, buf, decoder,
                   returncode, stdout, left, micVars, aaiVars,
                   translatorVars>>

\* `await stream_t` returns and process.wait() is awaited; or it raises what
\* ended the feeder (CancelledError, RuntimeError), which leaves the scope.
AwaitStreamEnds ==
    /\ scope = "await_stream_t"
    /\ stream_t.pc \in {"done", "failed", "cancelled"}
    /\ scope' = IF stream_t.pc = "done" THEN "await_wait" ELSE "left"
    /\ UNCHANGED <<queue, queue_size, configVars, taken, produced, micVars, fileVars,
                   aaiVars, translatorVars>>

\* `await process.wait()` returns.
AwaitWaitEnds ==
    /\ scope = "await_wait"
    /\ returncode # None
    /\ scope' = "left"
    /\ UNCHANGED <<queue, queue_size, configVars, taken, produced, micVars, fileVars,
                   aaiVars, translatorVars>>

\* The 5 s of asyncio.timeout are over: the await is cancelled, and with it
\* the feeder if it is the one awaited; process.kill() is called if
\* process.returncode is not None.
Timeout ==
    /\ scope \in {"await_stream_t", "await_wait"}
    /\ LoopIdle
    /\ scope = "await_stream_t" => stream_t.pc = "final_put"
    /\ scope = "await_wait" => returncode = None
    /\ stream_t' = Cancelled(stream_t)
    /\ signals' = IF returncode # None THEN signals \cup {"KILL"} ELSE signals
    /\ scope' = "left"
    /\ UNCHANGED <<queue, queue_size, configVars, taken, produced, buf, decoder,
                   returncode, stdout, left, micVars, aaiVars,
                   translatorVars>>

\* StreamConfig with its queue_size.
StreamConfigs == { [queue_size |-> n] : n \in 0..MaxQueueSize }

SourceNext ==
    \/ \E config \in StreamConfigs : stream_mic(config)
    \/ ThreadStep
    \/ MicScopeExits
    \/ ConsumerGets
    \/ \E config \in StreamConfigs, size \in 0..MaxFileUnits :
           stream_file(config, size)
    \/ DecoderWrites
    \/ \E how \in {"exit_0", "exit_1", "exit_term"} : DecoderExits(how)
    \/ DecoderReaped
    \/ FeederStep
    \/ FileScopeExits
    \/ AwaitStreamEnds
    \/ AwaitWaitEnds
    \/ Timeout

\* The capture thread runs when it can; the event loop runs the feeder and
\* the exit of the scope when their awaits are over, and its timeouts fire.
SourceSpec ==
    /\ Init
    /\ [][SourceNext]_vars
    /\ WF_vars(ThreadStep)
    /\ WF_vars(FeederStep)
    /\ WF_vars(AwaitStreamEnds \/ AwaitWaitEnds \/ Timeout)

\* ---------------------------------------- mic.py: StreamConfig and floats
\* timedelta.total_seconds() is a float, and so are the product and the
\* quotient from_time_params takes int() of. A Python float is an IEEE 754
\* binary64: a mantissa of MantissaBits bits, every operation rounded to
\* the nearest float, ties to the even mantissa. A mantissa is a natural
\* number written in digits of 15 bits, most significant first.
MantissaBits == 53
Base == 2^15

Big(n) == <<0, 0, 0, n \div Base, n % Base>>
Low == Len(Big(0))

Digits(d(_)) == <<d(1), d(2), d(3), d(4), d(5)>>

\* x < y on what follows digit k.
LessFrom(x, y, k) ==
    \E i \in (k + 1)..Low :
        /\ x[i] < y[i]
        /\ \A j \in (k + 1)..(i - 1) : x[j] = y[j]

Less(x, y) == LessFrom(x, y, 0)

Double(x) ==
    LET d(i) == (2 * x[i]
                 + IF i < Low /\ x[i + 1] >= Base \div 2 THEN 1 ELSE 0) % Base
    IN  Digits(d)

Halve(x) ==
    LET d(i) == x[i] \div 2
                + IF i > 1 /\ x[i - 1] % 2 = 1 THEN Base \div 2 ELSE 0
    IN  Digits(d)

\* x - y, for x >= y.
Minus(x, y) ==
    LET d(i) == (Base + x[i] - y[i]
                 - IF LessFrom(x, y, i) THEN 1 ELSE 0) % Base
    IN  Digits(d)

\* x + 1.
Succ(x) ==
    LET d(i) == (x[i]
                 + IF \A j \in (i + 1)..Low : x[j] = Base - 1 THEN 1 ELSE 0)
                % Base
    IN  Digits(d)

RECURSIVE Carry(_, _, _)
Carry(x, n, i) ==
    IF i = Low THEN 0 ELSE (x[i + 1] * n + Carry(x, n, i + 1)) \div Base

\* x * n, for an integer n below 2^16.
Times(x, n) ==
    LET d(i) == (x[i] * n + Carry(x, n, i)) % Base
    IN  Digits(d)

\* s.n / s.d * 2^s.e written with s.d <= s.n < 2 * s.d.
RECURSIVE Normalize(_)
Normalize(s) ==
    IF Less(s.n, s.d)
    THEN Normalize([n |-> Double(s.n), d |-> s.d, e |-> s.e - 1])
    ELSE IF ~Less(s.n, Double(s.d))
    THEN Normalize([n |-> s.n, d |-> Double(s.d), e |-> s.e + 1])
    ELSE s

\* One step of the long division of s.r by d, for s.r < d: the next bit
\* joins s.q.
NextBit(s, d) ==
    LET r2 == Double(s.r)
        bit == ~Less(r2, d)
    IN  [q |-> [Double(s.q) EXCEPT ![Low] = @ + IF bit THEN 1 ELSE 0],
         r |-> IF bit THEN Minus(r2, d) ELSE r2]

\* The mantissa of 1.0, 2^(MantissaBits - 1): a one and 52 zeros.
Unit == <<0, 2^7, 0, 0, 0>>

FourBits(s, d) == NextBit(NextBit(NextBit(NextBit(s, d), d), d), d)

\* The division goes on, from a quotient of one bit, until it has
\* MantissaBits bits: 52 more, four at a time.
RECURSIVE Mantissa(_, _)
Mantissa(s, d) ==
    IF ~Less(s.q, Unit) THEN s ELSE Mantissa(FourBits(s, d), d)

\* The float 0.0.
Zero == [m |-> Big(0), e |-> 0]

\* The float nearest to n / d, ties to even: the value m * 2^e / Unit.
Nearest(n, d) ==
    IF n = Big(0) THEN Zero ELSE
    LET s == Normalize([n |-> n, d |-> d, e |-> 0])
        t == Mantissa([q |-> Big(1), r |-> Minus(s.n, s.d)], s.d)
        h == NextBit([q |-> Big(0), r |-> t.r], s.d)
        up == h.q = Big(1) /\ (h.r # Big(0) \/ t.q[Low] % 2 = 1)
        m == IF up THEN Succ(t.q) ELSE t.q
    IN  IF m = Double(Unit) THEN [m |-> Unit, e |-> s.e + 1]
        ELSE [m |-> m, e |-> s.e]

\* timedelta(milliseconds=ms).total_seconds(): the microseconds divided by
\* 10^6, correctly rounded.
total_seconds(ms) == Nearest(Big(ms * 1000), Big(10^6))

\* a / b of two floats, b not 0.0.
FloatDiv(a, b) ==
    IF a = Zero THEN Zero ELSE
    LET q == Nearest(a.m, b.m)
    IN  [m |-> q.m, e |-> q.e + a.e - b.e]

\* n * a of an int and a float: the int converts exactly, the product is
\* rounded.
IntTimesFloat(n, a) ==
    IF a = Zero THEN Zero ELSE
    LET p == Nearest(Times(a.m, n), Unit)
    IN  [m |-> p.m, e |-> p.e + a.e]

RECURSIVE Shift(_, _)
Shift(x, k) ==
    IF k = 0 \/ x = Big(0) THEN x
    ELSE IF k >= 15
    THEN Shift(<<0, x[1], x[2], x[3], x[4]>>, k - 15)
    ELSE Shift(Halve(x), k - 1)

\* int() of a float from 0.0 to 2^30: truncation.
int(x) ==
    IF x.e < 0 THEN 0
    ELSE LET n == Shift(x.m, MantissaBits - 1 - x.e)
         IN  n[Low - 1] * Base + n[Low]

\* StreamConfig.from_time_params, the durations in milliseconds.
from_time_params(sample_rate, buffer_duration, max_latency) ==
    LET buffer_seconds == total_seconds(buffer_duration)
        latency_seconds == total_seconds(max_latency)
    IN  [frames_per_buffer |-> int(IntTimesFloat(sample_rate, buffer_seconds)),
         queue_size |-> int(FloatDiv(latency_seconds, buffer_seconds))]

\* The sample rates and the durations (ms) a StreamConfig is made from.
SampleRates == {8000, 16000, 44100, 48000}
BufferDurations == {10, 20, 50, 100, 200}
MaxLatencies == {0, 50, 100, 300, 500, 600, 700, 1000, 3000}

TimeParams ==
    [sample_rate : SampleRates, buffer_duration : BufferDurations,
     max_latency : MaxLatencies]

\* MicManager.make_stream_config.
make_stream_config ==
    /\ ~stream_config.some
    /\ stream_config' =
           Some(from_time_params(time_params.sample_rate,
                                 time_params.buffer_duration,
                                 time_params.max_latency))
    /\ UNCHANGED <<time_params, queue, queue_size, scope, taken, produced,
                   micVars, fileVars, aaiVars, translatorVars>>

\* stream_mic with the config made: asyncio.Queue(config.queue_size).
StreamsMic ==
    /\ stream_config.some
    /\ stream_mic(stream_config.val)

ParamsInit ==
    /\ HistoryInit(FALSE) /\ TranslatorInit /\ AudioInit /\ OuterInit
    /\ \E params \in TimeParams : ConfigInit(params)

ConfigNext == make_stream_config \/ StreamsMic

ConfigSpec == ParamsInit /\ [][ConfigNext]_vars

\* ------------------------------------------------------ aai.py: stream()
Finished == {"done", "failed", "cancelled"}

\* The frames the session sends: a binary frame with a chunk of audio, and
\* the text frame json.dumps({"type": "Terminate"}).
AudioFrame(blob) == [type |-> "binary", blob |-> blob]

TerminateFrame == [type |-> "Terminate", blob |-> 0]

\* The text frames the provider sends, the n-th one of the session: a Begin,
\* a Turn, a Termination, a Turn whose words lack a field, JSON of another
\* or of an incomplete type, and text that is not JSON.
FrameKinds == {"Begin", "Turn", "Termination", "BadTurn", "Unknown", "NotJson"}

Frame(kind, n) == [kind |-> kind, n |-> n]

\* What _stream_rx makes of a frame: json.loads, then _match_msg, whose
\* receiver callback raises or returns.
_match_msg(frame, raises) ==
    CASE frame.kind = "NotJson" -> "not_json"
      [] frame.kind = "Begin" ->
             IF raises THEN "session_begins_raised" ELSE "session_begins"
      [] frame.kind = "Termination" ->
             IF raises THEN "termination_raised" ELSE "terminated"
      [] frame.kind = "Turn" -> IF raises THEN "turn_raised" ELSE "turn"
      [] frame.kind = "BadTurn" -> "decode_error"
      [] OTHER -> "no_match"

WsUp == ws \in {"open", "answered"}

\* The audio source of the session puts its next chunk, or the empty chunk
\* that ends the audio.
SourcePuts(chunk) ==
    /\ stream.pc # "none"
    /\ scope = "none"
    /\ ~Full(queue, queue_size)
    /\ 0 \notin { Put[i] : i \in DOMAIN Put }
    /\ chunk = 0 \/ (chunk = produced + 1 /\ chunk <= MaxChunks)
    /\ queue' = Append(queue, chunk)
    /\ produced' = IF chunk = 0 THEN produced ELSE produced + 1
    /\ UNCHANGED <<queue_size, configVars, scope, taken, micVars, fileVars, aaiVars,
                   translatorVars>>

\* stream(): the socket is connected and the two tasks are created; the
\* session waits for them with FIRST_EXCEPTION.
StreamStarts ==
    /\ stream.pc = "none"
    /\ scope = "none"
    /\ stream' = [pc |-> "wait", exc |-> "none"]
    /\ tx_t' = "get"
    /\ rx_t' = "recv"
    /\ ws' = "open"
    /\ UNCHANGED <<handled, should_send_terminate, termination_received, inbound,
                   outbound, queueVars, micVars, fileVars, translatorVars>>

\* A _stream_tx without the `if not blob` test: every chunk is sent.
TxGets_SendsEmpty ==
    /\ tx_t = "get"
    /\ stream.pc \in {"wait", "send_terminate", "await_termination"}
    /\ queue # <<>>
    /\ queue' = Tail(queue)
    /\ taken' = Append(taken, Head(queue))
    /\ tx_t' = "send"
    /\ UNCHANGED <<handled, queue_size, configVars, scope, produced, stream, rx_t,
                   should_send_terminate, termination_received, ws, inbound,
                   outbound, micVars, fileVars, translatorVars>>

\* _stream_tx: sender.get() returns a chunk; the empty chunk ends the task.
TxGets ==
    /\ tx_t = "get"
    /\ stream.pc \in {"wait", "send_terminate", "await_termination"}
    /\ queue # <<>>
    /\ queue' = Tail(queue)
    /\ taken' = Append(taken, Head(queue))
    /\ IF Head(queue) = 0
       THEN /\ should_send_terminate' = TRUE
            /\ tx_t' = "done"
       ELSE /\ tx_t' = "send"
            /\ UNCHANGED should_send_terminate
    /\ UNCHANGED <<handled, queue_size, configVars, scope, produced, stream, rx_t,
                   termination_received, ws, inbound, outbound, micVars,
                   fileVars, translatorVars>>

\* _stream_tx: ws.send(blob) returns, or raises on a closed socket.
TxSends ==
    /\ tx_t = "send"
    /\ stream.pc \in {"wait", "send_terminate", "await_termination"}
    /\ IF WsUp
       THEN /\ outbound' = Append(outbound, AudioFrame(taken[Len(taken)]))
            /\ tx_t' = "get"
       ELSE /\ tx_t' = "failed"
            /\ UNCHANGED outbound
    /\ UNCHANGED <<handled, stream, rx_t, should_send_terminate, termination_received,
                   ws, inbound, queueVars, micVars, fileVars, translatorVars>>

\* _stream_tx: cancelled by stream() at its await.
TxCancelled ==
    /\ stream.pc = "gather"
    /\ tx_t \in {"get", "send"}
    /\ should_send_terminate' = TRUE
    /\ tx_t' = "cancelled"
    /\ UNCHANGED <<handled, stream, rx_t, termination_received, ws, inbound, outbound,
                   queueVars, micVars, fileVars, translatorVars>>

\* A _stream_rx without the try around _match_msg: an exception of the
\* decoding or of a receiver callback ends the task.
RxRecvs_NoTry ==
    /\ rx_t = "recv"
    /\ stream.pc \in {"wait", "send_terminate", "await_termination"}
    /\ IF inbound # <<>>
       THEN /\ inbound' = Tail(inbound)
            /\ \E raises \in BOOLEAN :
                  LET outcome == _match_msg(Head(inbound), raises)
                  IN /\ handled' = Append(handled, [frame |-> Head(inbound),
                                                    outcome |-> outcome])
                     /\ termination_received' =
                            (termination_received \/ outcome = "terminated")
                     /\ rx_t' = IF outcome = "terminated" THEN "done"
                                ELSE IF outcome \in {"not_json", "no_match",
                                                     "session_begins", "turn"}
                                THEN "recv" ELSE "failed"
       ELSE /\ ~WsUp
            /\ rx_t' = "failed"
            /\ UNCHANGED <<termination_received, inbound, handled>>
    /\ UNCHANGED <<stream, tx_t, should_send_terminate, ws, outbound,
                   queueVars, micVars, fileVars, translatorVars>>

\* _stream_rx: ws.recv() returns a frame, which is decoded and dispatched by
\* _match_msg, the loop going on unless term_event has been set; or ws.recv()
\* raises on a closed socket.
RxRecvs ==
    /\ rx_t = "recv"
    /\ stream.pc \in {"wait", "send_terminate", "await_termination"}
    /\ IF inbound # <<>>
       THEN /\ inbound' = Tail(inbound)
            /\ \E raises \in BOOLEAN :
                  LET outcome == _match_msg(Head(inbound), raises)
                  IN /\ handled' = Append(handled, [frame |-> Head(inbound),
                                                    outcome |-> outcome])
                     /\ termination_received' =
                            (termination_received \/ outcome = "terminated")
                     /\ rx_t' = IF termination_received' THEN "done" ELSE "recv"
       ELSE /\ ~WsUp
            /\ rx_t' = "failed"
            /\ UNCHANGED <<termination_received, inbound, handled>>
    /\ UNCHANGED <<stream, tx_t, should_send_terminate, ws, outbound,
                   queueVars, micVars, fileVars, translatorVars>>

\* _stream_rx: cancelled by stream() at its await.
RxCancelled ==
    /\ stream.pc = "gather"
    /\ rx_t = "recv"
    /\ rx_t' = "cancelled"
    /\ UNCHANGED <<handled, stream, tx_t, should_send_terminate, termination_received,
                   ws, inbound, outbound, queueVars, micVars, fileVars,
                   translatorVars>>

\* A `finally` that does not test termination_received.
Finally_IgnoresTermination(exc, should_send) ==
    stream' = [pc |-> IF should_send THEN "send_terminate" ELSE "gather",
               exc |-> exc]

\* The `finally` of stream(), entered with the exception `exc` in flight.
Finally(exc, should_send) ==
    stream' = [pc |-> IF should_send /\ ~termination_received
                      THEN "send_terminate" ELSE "gather",
               exc |-> exc]

\* A wait whose result is not inspected: no task.result() after it.
WaitReturns_NoResult ==
    /\ stream.pc = "wait"
    /\ \/ "failed" \in {tx_t, rx_t}
       \/ tx_t \in Finished /\ rx_t \in Finished
    /\ Finally("none", should_send_terminate)
    /\ UNCHANGED <<handled, tx_t, rx_t, should_send_terminate, termination_received,
                   ws, inbound, outbound, queueVars, micVars, fileVars,
                   translatorVars>>

\* asyncio.wait(..., return_when=FIRST_EXCEPTION) returns: one task has
\* raised, or both are finished. task.result() re-raises.
WaitReturns ==
    /\ stream.pc = "wait"
    /\ \/ "failed" \in {tx_t, rx_t}
       \/ tx_t \in Finished /\ rx_t \in Finished
    /\ Finally(IF "failed" \in {tx_t, rx_t} THEN "error" ELSE "none",
               should_send_terminate)
    /\ UNCHANGED <<handled, tx_t, rx_t, should_send_terminate, termination_received,
                   ws, inbound, outbound, queueVars, micVars, fileVars,
                   translatorVars>>

\* stream() is cancelled while it waits for its tasks.
StreamCancelled ==
    /\ stream.pc = "wait"
    /\ should_send_terminate' = TRUE
    /\ Finally("cancelled", TRUE)
    /\ UNCHANGED <<handled, tx_t, rx_t, termination_received, ws, inbound, outbound,
                   queueVars, micVars, fileVars, translatorVars>>

\* ws.send of the Terminate frame returns, or raises (logged).
SendsTerminate ==
    /\ stream.pc = "send_terminate"
    /\ IF WsUp
       THEN /\ outbound' = Append(outbound, TerminateFrame)
            /\ stream' = [stream EXCEPT !.pc = "await_termination"]
       ELSE /\ stream' = [stream EXCEPT !.pc = "gather"]
            /\ UNCHANGED outbound
    /\ UNCHANGED <<handled, tx_t, rx_t, should_send_terminate, termination_received,
                   ws, inbound, queueVars, micVars, fileVars, translatorVars>>

\* termination_received.wait() returns, or the 5 s of the timeout are over.
TerminationWaitEnds ==
    /\ stream.pc = "await_termination"
    /\ stream' = [stream EXCEPT !.pc = "gather"]
    /\ UNCHANGED <<handled, tx_t, rx_t, should_send_terminate, termination_received,
                   ws, inbound, outbound, queueVars, micVars, fileVars,
                   translatorVars>>

\* asyncio.gather of the two tasks returns; the socket is closed and the
\* exception in flight, if any, leaves stream().
GatherReturns ==
    /\ stream.pc = "gather"
    /\ tx_t \in Finished
    /\ rx_t \in Finished
    /\ stream' = [stream EXCEPT
                      !.pc = IF stream.exc = "none" THEN "returned"
                             ELSE "raised"]
    /\ ws' = "closed"
    /\ UNCHANGED <<handled, tx_t, rx_t, should_send_terminate, termination_received,
                   inbound, outbound, queueVars, micVars, fileVars,
                   translatorVars>>

\* The frames the provider has sent so far.
FramesSent == Len(handled) + Len(inbound)

\* The provider sends a frame of its own, of the kind `frame`: the last one
\* if it is a Termination (the session expires).
ProviderSends(frame) ==
    /\ ws = "open"
    /\ FramesSent < MaxFrames
    /\ inbound' = Append(inbound, Frame(frame, FramesSent + 1))
    /\ ws' = IF frame = "Termination" THEN "answered" ELSE ws
    /\ UNCHANGED <<handled, stream, tx_t, rx_t, should_send_terminate,
                   termination_received, outbound, queueVars, micVars,
                   fileVars, translatorVars>>

\* The provider answers a Terminate frame with a Termination frame.
ProviderAnswers ==
    /\ ws = "open"
    /\ \E i \in DOMAIN outbound : outbound[i] = TerminateFrame
    /\ inbound' = Append(inbound, Frame("Termination", FramesSent + 1))
    /\ ws' = "answered"
    /\ UNCHANGED <<handled, stream, tx_t, rx_t, should_send_terminate,
                   termination_received, outbound, queueVars, micVars,
                   fileVars, translatorVars>>

\* The connection is lost.
ProviderCloses ==
    /\ WsUp
    /\ ws' = "closed"
    /\ UNCHANGED <<handled, stream, tx_t, rx_t, should_send_terminate,
                   termination_received, inbound, outbound, queueVars,
                   micVars, fileVars, translatorVars>>

\* The steps of the session and of a provider that answers: the event loop
\* runs a task whose await is over.
SessionStep ==
    \/ TxGets
    \/ TxSends
    \/ TxCancelled
    \/ RxRecvs
    \/ RxCancelled
    \/ WaitReturns
    \/ SendsTerminate
    \/ TerminationWaitEnds
    \/ GatherReturns
    \/ ProviderAnswers

AaiNext ==
    \/ StreamStarts
    \/ \E chunk \in 0..MaxChunks : SourcePuts(chunk)
    \/ SessionStep
    \/ StreamCancelled
    \/ \E frame \in {"Turn", "Termination"} : ProviderSends(frame)
    \/ ProviderCloses

\* The event loop runs every task whose await is over: _stream_tx, _stream_rx
\* and stream() itself (whose wait for the Termination ends after 5 s at the
\* latest) each get their turn, and the provider answers a Terminate frame.
TxStep == TxGets \/ TxSends \/ TxCancelled

RxStep == RxRecvs \/ RxCancelled

StreamStep == WaitReturns \/ SendsTerminate \/ TerminationWaitEnds \/ GatherReturns

AaiSpec ==
    /\ Init /\ [][AaiNext]_vars
    /\ WF_vars(TxStep) /\ WF_vars(RxStep) /\ WF_vars(StreamStep)
    /\ WF_vars(ProviderAnswers)

\* The session with a silent audio source and a provider that sends frames of
\* every kind.
RxNext ==
    \/ StreamStarts
    \/ RxStep
    \/ StreamStep
    \/ TxCancelled
    \/ StreamCancelled
    \/ \E frame \in FrameKinds : ProviderSends(frame)
    \/ ProviderAnswers
    \/ ProviderCloses

RxSpec ==
    /\ Init /\ [][RxNext]_vars
    /\ WF_vars(TxStep) /\ WF_vars(RxStep) /\ WF_vars(StreamStep)
    /\ WF_vars(ProviderAnswers)

\* ------------------------------------------------------------ step tests
\* The step just taken is an absorption (only Absorb clears the flag).
AbsorbStep == pc = "wait" /\ has_new_turns /\ ~has_new_turns'

\* The step just taken stored a completion on the entry being translated.
TranslatedStep == pc = "completion" /\ pc' = "sink"

\* All TranslatedTurns held by the entries, entries taken by ascending turn id.
Held(ts) == Flatten(SortedEntries(ts))

DirtyIds(ts, snapshot) ==
    { snapshot[i].id : i \in
        { j \in DOMAIN snapshot :
            /\ snapshot[j].words # <<>>
            /\ \/ ~HasKey(ts, snapshot[j].id)
               \/ Get(ts, snapshot[j].id).turn.text # snapshot[j].text } }

MinDirty(ts, snapshot) ==
    LET ids == DirtyIds(ts, snapshot)
    IN IF ids = {} THEN Inf ELSE CHOOSE m \in ids : \A k \in ids : m <= k

\* C2: an absorption leaves every entry with id >= min_dirty with completion
\* and translated null, and every entry with id < min_dirty as it was; when
\* no turn is new or changed, no entry is modified.
C2_CascadeInvalidation ==
    [][AbsorbStep =>
          LET min_dirty == MinDirty(turns, _queued_turns)
          IN /\ \A i \in DOMAIN turns' :
                    IF turns'[i].turn.id >= min_dirty
                    THEN /\ turns'[i].completion = None
                         /\ turns'[i].translated = None
                    ELSE /\ i \in DOMAIN turns
                         /\ turns'[i] = turns[i]
             /\ min_dirty = Inf => turns' = turns]_vars

\* C2 witness: an absorption has reset a translated entry and kept an
\* earlier translated entry.
C2_Witness ==
    /\ lastStep = "absorb"
    /\ absorbed.reset > 0
    /\ \E i \in DOMAIN turns : ~IsDirty(turns[i])
    /\ \E i \in DOMAIN turns : IsDirty(turns[i])

\* Every turn of the snapshot that has words is stored with that text.
Reflects(ts, snapshot) ==
    \A i \in DOMAIN snapshot :
        snapshot[i].words # <<>> =>
            /\ HasKey(ts, snapshot[i].id)
            /\ Get(ts, snapshot[i].id).turn.text = snapshot[i].text

\* The driver is back at its wait with nothing left to do.
Quiescent ==
    /\ pc = "wait"
    /\ ~has_new_turns
    /\ Reflects(turns, _queued_turns)
    /\ DirtyCount(turns) = 0

\* C3: no lost update. Whenever update_turns has stored a snapshot, the
\* driver eventually is back at its wait with the latest stored snapshot
\* absorbed and no dirty entry left (no call raising, the driver not
\* cancelled).
C3_NoLostUpdate == has_new_turns ~> Quiescent

\* C3 witness: update_turns has stored, while a completion call is in
\* flight, a snapshot that the entries do not reflect yet.
C3_Witness ==
    /\ pc = "completion"
    /\ has_new_turns
    /\ ~Reflects(turns, _queued_turns)

\* C4: freshness. An absorption takes the snapshot of the latest
\* update_turns call and nothing of the calls before it: the entries after it
\* are those that absorbing that one snapshot gives, and no call is left
\* waiting.
C4_Freshness ==
    [][AbsorbStep =>
          /\ _queued_turns = lastCall
          /\ turns' = _update_turns(turns, lastCall)
          /\ Reflects(turns', lastCall)
          /\ ~has_new_turns']_vars

\* C4 witness: an absorption, not the first one, that followed several
\* update_turns calls.
C4_Witness ==
    /\ lastStep = "absorb"
    /\ absorbed.calls >= 2
    /\ nUpdates > absorbed.calls
    /\ turns # <<>>

\* The request in flight carries, for the entry of turn `id`, its user
\* message followed by its cached assistant message.
SentVerbatim(entry) ==
    \E j \in DOMAIN req.conversation :
        /\ j + 1 \in DOMAIN req.conversation
        /\ req.conversation[j] = UserMessage(entry.turn)
        /\ req.conversation[j + 1] = entry.completion.val

\* C5: minimal work. The completion calls made since the last absorption
\* number at most the entries that absorption left dirty, and exactly that
\* many when the driver is back at its wait with no exception logged since;
\* every entry before the one being translated is clean and its cached
\* assistant message is sent verbatim.
C5_MinimalWork ==
    /\ nCompletions <= absorbed.dirty
    /\ (nLogged = 0 /\ pc = "wait") => nCompletions = absorbed.dirty
    /\ pc = "completion" =>
          \A i \in DOMAIN turns :
              IF turns[i].turn.id < req.to_translate.val
              THEN ~IsDirty(turns[i]) /\ SentVerbatim(turns[i])
              ELSE IsDirty(turns[i])

\* C5 witness: only the turn with the greatest id changed, one completion
\* call was made and the driver is back at its wait.
C5_Witness ==
    /\ pc = "wait"
    /\ nLogged = 0
    /\ lastStep = "sink_returned"
    /\ Len(turns) >= 2
    /\ absorbed.reset = 1
    /\ absorbed.dirty = 1
    /\ nCompletions = 1

\* C6 (as stated): when the completion call of a dirty entry fails, the
\* entry is marked translated with an empty list and is not left dirty.
C6_FailedEntryMarkedEmpty ==
    [][(pc = "completion" /\ lastStep' = "completion_error") =>
          LET entry == Get(turns', req.to_translate.val)
          IN ~IsDirty(entry) /\ entry.translated = Some(<<>>)]_vars

\* C6 witness: a completion call has failed and the driver is back at its
\* wait with an entry still dirty.
C6_Witness ==
    /\ lastStep = "completion_error"
    /\ pc = "wait"
    /\ DirtyCount(turns) > 0

\* C7 (as stated): when a tool call of the response cannot be decoded, the
\* entry is still marked translated (completion non-null).
C7_BadCallSkipped ==
    [][(pc = "completion" /\ lastStep' = "decode_error") =>
          Get(turns', req.to_translate.val).completion # None]_vars

\* C7 witness: a response could not be decoded and the driver is back at its
\* wait with an entry still dirty.
C7_Witness ==
    /\ lastStep = "decode_error"
    /\ pc = "wait"
    /\ DirtyCount(turns) > 0

\* The steps that end in `except Exception` of process().
Errors == {"completion_error", "decode_error", "sink_error"}

\* The driver has been cancelled, or has absorbed the latest snapshot.
Served ==
    \/ pc = "done"
    \/ ~has_new_turns /\ Reflects(turns, _queued_turns)

\* C8: an exception other than cancellation is logged and leaves the driver
\* at its wait; only cancellation ends the driver; and whatever exceptions
\* are raised, a snapshot stored by update_turns is absorbed unless the
\* driver is cancelled.
C8_DriverSurvives ==
    /\ [](lastStep \in Errors => (pc = "wait" /\ nLogged > 0))
    /\ [](pc = "done" <=> lastStep = "cancelled")
    /\ (has_new_turns ~> Served)

\* C8 witness: an exception has been logged, the driver is at its wait and
\* an update_turns call is waiting to be absorbed.
C8_Witness ==
    /\ lastStep \in Errors
    /\ pc = "wait"
    /\ has_new_turns
    /\ DirtyCount(turns) > 0

\* C9: every successful translation step hands the current translations to
\* the sink, whether or not dirty entries remain.
C9_DeliveredEachStep ==
    /\ lastStep = "translated" => pc = "sink"
    /\ pc = "sink" => delivered = SinkList(turns)
    /\ pc = "sink" => ~IsDirty(Get(turns, req.to_translate.val))

\* C9 witness: a list is being delivered while a dirty entry remains.
C9_Witness ==
    /\ pc = "sink"
    /\ delivered # <<>>
    /\ DirtyCount(turns) > 0

C11_GracefulShutdown ==
    (tx_t = "done") ~>
        (stream.pc = "returned" \/ ws = "closed" \/ stream.exc = "cancelled")

\* C11 witness: _stream_tx has ended on the empty chunk; stream() waits for
\* _stream_rx, which waits for a frame; no Terminate frame has been sent.
C11_Witness ==
    /\ tx_t = "done"
    /\ should_send_terminate
    /\ stream.pc = "wait"
    /\ rx_t = "recv"
    /\ ws = "open"
    /\ inbound = <<>>
    /\ \A i \in DOMAIN outbound : outbound[i] # TerminateFrame

\* The audio chunks among the first n chunks put on the queue.
AudioPut(n) == Cardinality({ i \in 1..n : Put[i] # 0 })

\* C12 (as stated): whatever the configuration, the queue never holds more
\* than queue_size chunks, and the chunks put on it are the chunks
\* produced, in the order they were produced.
C12_QueueBounded ==
    scope # "none" =>
        /\ Len(queue) <= queue_size
        /\ \A i \in DOMAIN Put : Put[i] # 0 => Put[i] = AudioPut(i)
        /\ produced = AudioPut(Len(Put)) + (IF thread = "put" THEN 1 ELSE 0)

\* C12 witness: a queue of unbounded size (queue_size = 0) holds a chunk.
C12_Witness ==
    /\ scope \in {"mic", "file"}
    /\ queue_size = 0
    /\ queue # <<>>

\* C13 (as stated): once the scope of stream_mic is left, the capture
\* thread terminates.
C13_ThreadEndsAfterExit ==
    (scope = "left" /\ thread # "none") ~> (thread = "done")

\* C13 witness: the scope is left while the capture thread waits for room
\* in a full queue that nobody reads.
C13_Witness ==
    /\ scope = "left"
    /\ ~run
    /\ thread = "put"
    /\ Full(queue, queue_size)

\* C14 (as stated): when the scope of stream_file has been left, the
\* decoder has exited or has been killed.
C14_DecoderNotLeftRunning ==
    (scope = "left" /\ decoder # "none") =>
        (decoder # "running" \/ "KILL" \in signals)

\* C14 witness: the feeder was cancelled, the scope is left, and the decoder
\* is still running with only SIGTERM sent.
C14_Witness ==
    /\ scope = "left"
    /\ decoder = "running"
    /\ stream_t.pc = "cancelled"
    /\ returncode = None
    /\ signals = {"TERM"}

\* C15 (as stated): when the feeder has terminated, it has put exactly one
\* empty chunk on the queue, after all audio chunks.
C15_EndsWithEmptyChunk ==
    stream_t.pc \in {"done", "failed", "cancelled"} =>
        /\ Put # <<>>
        /\ \A i \in DOMAIN Put : Put[i] = 0 <=> i = Len(Put)

\* C15 witness: the feeder was cancelled and has terminated without an
\* empty chunk, after audio chunks.
C15_Witness ==
    /\ stream_t.pc = "cancelled"
    /\ scope = "left"
    /\ Put # <<>>
    /\ \A i \in DOMAIN Put : Put[i] # 0

\* C16 (as stated): the sequence of lists delivered to the sink is the same
\* for every interleaving of the update_turns calls with the completion
\* calls: once the driver has nothing left to do, it is the sequence
\* delivered by the run in which each snapshot is absorbed and translated to
\* the end before the next update_turns call.
C16_Deterministic ==
    (recording /\ Quiescent) => sunk = RunInTurn(<<>>, asr_events, <<>>)

\* C16 (amended): against an LLM whose response is a function of the
\* conversation, what the translator holds and delivers depends on the turns
\* it holds alone, whatever the interleaving that led to them: every entry
\* that has a completion holds the completion and the TranslatedTurns that a
\* translation from scratch of the held turns gives it, and each list
\* delivered to the sink is the sorted list of these.
C16_DeliveredFromHeldTurns ==
    recording =>
        LET scratch == Scratch(turns)
            clean == { i \in DOMAIN turns : ~IsDirty(turns[i]) }
        IN /\ \A i \in clean : turns[i] = scratch[i]
           /\ pc = "sink" =>
                  delivered =
                      SinkList([i \in DOMAIN turns |->
                                   IF i \in clean THEN scratch[i]
                                   ELSE LlmTranslationEntry(turns[i].turn)])

\* C16 witness: two update_turns calls, the first one absorbed and
\* translated before the second; the second changed a turn that had been
\* translated, and a list has been delivered after its re-translation.
C16_Witness ==
    /\ recording
    /\ pc = "sink"
    /\ Len(asr_events) = 2
    /\ absorbed.reset > 0
    /\ Len(sunk) >= 2
    /\ delivered # <<>>

\* The response [delete_turn(0), translate(...)].
DeleteThenTranslate ==
    [role |-> "assistant",
     tool_calls |->
         Some(<<ToolCall(1, [name |-> "delete_turn", arguments |-> ArgsDelete]),
                ToolCall(2, [name |-> "translate", arguments |-> ArgsOk])>>)]

\* C17 (as stated): a delete_turn call takes one id slot and hides the
\* TranslatedTurn it names: when a response is stored, each translate call
\* has produced the TranslatedTurn whose id is next_id plus the number of
\* translate and delete_turn calls before it, and no entry still holds a
\* TranslatedTurn with the id named by a delete_turn call of the response.
C17_DeleteTurn ==
    [][TranslatedStep =>
          LET id == req.to_translate.val
              out == Get(turns', id).translated.val
              calls == ToolCallsOf(Get(turns', id).completion.val)
              Slot(i) ==
                  req.next_id
                  + Cardinality({ j \in 1..(i - 1) :
                        calls[j].function.name \in {"translate", "delete_turn"} })
          IN \A i \in DOMAIN calls :
                 /\ calls[i].function.name = "translate" =>
                        \E k \in DOMAIN out :
                            out[k].id = Slot(i) /\ out[k].original_id = id
                 /\ calls[i].function.name = "delete_turn" =>
                        \A k \in DOMAIN Held(turns') :
                            Held(turns')[k].id # turn_id(calls[i].function.arguments)]_vars

\* C17 witness: turn 1 holds the TranslatedTurn 0 and the response
\* [delete_turn(0), translate(...)] has been stored on turn 2.
C17_Witness ==
    /\ lastStep = "translated"
    /\ HasKey(turns, 1) /\ HasKey(turns, 2)
    /\ LenTranslated(Get(turns, 1)) = 1
    /\ Get(turns, 2).completion = Some(DeleteThenTranslate)

\* The position of the call calls[i] among the translate calls of `calls`.
Rank(calls, i) ==
    Cardinality({ j \in 1..i : calls[j].function.name = "translate" })

\* The number of messages _build_conversation appends for a clean entry.
BlockLen(entry) == 3 + Len(ToolCallsOf(entry.completion.val))

\* The number of messages that precede those of entries[k].
RECURSIVE BlockStart(_, _)
BlockStart(entries, k) ==
    IF k = 1 THEN 0
    ELSE BlockStart(entries, k - 1) + BlockLen(entries[k - 1])

\* C18 (as stated): the translate calls of a response produce TranslatedTurns
\* with consecutive ids from next_id on, in the order of the calls, with the
\* id of the source turn as original_id, the first id of a session being 0;
\* and in a conversation built later the tool message that answers a
\* translate call carries that call's id as tool_call_id and the decimal
\* text of the id given to its TranslatedTurn as content.
C18_ToolOutputReplayed ==
    /\ [][TranslatedStep =>
             LET id == req.to_translate.val
                 out == Get(turns', id).translated.val
                 calls == ToolCallsOf(Get(turns', id).completion.val)
             IN /\ Len(out) = Rank(calls, Len(calls))
                /\ \A k \in DOMAIN out :
                       out[k].id = req.next_id + k - 1 /\ out[k].original_id = id
                /\ (maxEmitted = -1 /\ out # <<>>) => out[1].id = 0]_vars
    /\ [](pc = "completion" =>
             LET es == SortedEntries(turns)
             IN \A k \in DOMAIN es :
                    es[k].turn.id < req.to_translate.val =>
                        LET calls == ToolCallsOf(es[k].completion.val)
                        IN \A i \in DOMAIN calls :
                               calls[i].function.name = "translate" =>
                                   LET m == req.conversation[BlockStart(es, k) + 2 + i]
                                       t == es[k].translated.val[Rank(calls, i)]
                                   IN /\ m.role = "tool"
                                      /\ m.tool_call_id = calls[i].id
                                      /\ m.content = ToString(t.id))

\* C18 witness: a conversation is built after an earlier entry has been
\* translated by a translate call, so it holds the tool message of that call.
C18_Witness ==
    /\ pc = "completion"
    /\ req.next_id > 0
    /\ \E j \in DOMAIN req.conversation : req.conversation[j].role = "tool"

\* The TranslatedTurns held by the entries that come before the turn `id`.
HeldBefore(ts, id) ==
    Flatten(SelectSeq(SortedEntries(ts), LAMBDA e : e.turn.id < id))

BuildStep == AbsorbStep \/ (pc = "sink" /\ pc' # "sink")

\* C20 (as stated): when _build_conversation runs over N entries, the request
\* it returns is the one built over the last keep = 10 + (N mod 10) entries in
\* id order alone, and the entries outside that window are gone from the
\* translator's state afterwards.
C20_RetentionWindow ==
    [][BuildStep =>
          LET all == SortedEntries(IF AbsorbStep
                                   THEN _update_turns(turns, _queued_turns)
                                   ELSE turns)
              window == Window(all)
              built == BuildLoop(window, 0, <<>>)
          IN /\ SortedEntries(turns') = window
             /\ built.to_translate.some =>
                    /\ req'.to_translate = built.to_translate
                    /\ req'.conversation = built.conversation]_vars

\* C20 witness: _build_conversation has run over MaxWindowTurns entries of
\* which only the last is dirty.
C20_Witness ==
    /\ pc = "completion"
    /\ Len(turns) = MaxWindowTurns
    /\ Len(turns) > Keep(Len(turns))
    /\ req.to_translate = Some(MaxWindowTurns)

\* The assistant message stored on the entry that was just translated.
StoredMessage(ts) == Get(ts, req.to_translate.val).completion.val

\* C21: a response without tool calls, whether its tool_calls list is empty
\* or missing, leaves the entry with translated = [] and a completion, so
\* that _build_conversation does not select the entry again; and the driver
\* then gets back to its wait.
C21_EmptyResponseNoStall ==
    /\ [][(TranslatedStep /\ ToolCallsOf(StoredMessage(turns')) = <<>>) =>
             LET id == req.to_translate.val
             IN /\ Get(turns', id).translated = Some(<<>>)
                /\ _build_conversation(turns').to_translate # Some(id)]_vars
    /\ (pc = "sink" /\ ToolCallsOf(StoredMessage(turns)) = <<>>) ~> (pc = "wait")

\* C21 witness: the driver is back at its wait while an entry holds a
\* completion without a tool_calls list and another one a completion with an
\* empty list, both with translated = [].
C21_Witness ==
    /\ pc = "wait"
    /\ lastStep = "sink_returned"
    /\ \E i, j \in DOMAIN turns :
           /\ turns[i].completion = Some([role |-> "assistant", tool_calls |-> None])
           /\ turns[j].completion = Some([role |-> "assistant", tool_calls |-> Some(<<>>)])
           /\ turns[i].translated = Some(<<>>)
           /\ turns[j].translated = Some(<<>>)

\* The attempt ended with the error of a model that did not call a tool.
ToolUseFailed(outcome) ==
    outcome.type = "HTTPStatusError" /\ outcome.body = BodyToolUseFailed

\* Every attempt of a call posts the request of the first one; an attempt
\* is made again only after a tool_use_failed error; any other exception
\* ends the call and is raised to the caller.
RetriedOnToolUseFailedOnly ==
    /\ \A i \in DOMAIN posted : posted[i] = posted[1]
    /\ Len(posted) = (IF attempt > 0 THEN attempt ELSE Len(outcomes))
    /\ \A i \in DOMAIN outcomes :
           i < Len(posted) => ToolUseFailed(outcomes[i])
    /\ (attempt = 0 /\ outcomes # <<>>) =>
           LET last == outcomes[Len(outcomes)]
           IN /\ last = Returned => raised = "none"
              /\ (last # Returned /\ ~ToolUseFailed(last)) => raised = last.type
              /\ ToolUseFailed(last) => raised = "RetryError"

Stored(store, id) == store[CHOOSE i \in DOMAIN store : store[i].id = id]

\* The turns of `store` by ascending turn id.
SortedById(store) ==
    LET ps == SortPairs([i \in DOMAIN store |-> <<store[i].id, store[i]>>])
    IN [i \in DOMAIN ps |-> ps[i][2]]

\* C23 (as stated): after a turn event the store maps the turn's id to that
\* turn, and the snapshot passed to update_turns is the list of the stored
\* turns by ascending turn id.
C23_TurnStoreSorted ==
    /\ lastEvent.some =>
           /\ \E i \in DOMAIN _source_turns :
                  _source_turns[i].id = lastEvent.val.id
           /\ Stored(_source_turns, lastEvent.val.id) = lastEvent.val
    /\ nUpdates > 0 =>
           \A i \in DOMAIN lastCall : lastCall[i] = SortedById(_source_turns)[i]

\* C23 (amended): after a turn event whose text is not blank the store maps
\* the turn's id to that turn, and the snapshot passed to update_turns is the
\* list of the stored turns in the order in which their ids were first
\* stored: an id keeps its place when its turn is replaced and a new id goes
\* to the end. A turn event whose text is blank changes neither the store nor
\* the translator, and no stored turn has a blank text.
C23_TurnStoreInsertionOrder ==
    /\ [](/\ (lastEvent.some /\ strip(lastEvent.val.text) # "") =>
                 /\ \E i \in DOMAIN _source_turns :
                        _source_turns[i].id = lastEvent.val.id
                 /\ Stored(_source_turns, lastEvent.val.id) = lastEvent.val
          /\ \A i \in DOMAIN _source_turns :
                 /\ strip(_source_turns[i].text) # ""
                 /\ \A j \in DOMAIN _source_turns :
                        _source_turns[i].id = _source_turns[j].id => i = j
          /\ nUpdates > 0 =>
                 /\ Len(lastCall) = Len(_source_turns)
                 /\ \A i \in DOMAIN lastCall : lastCall[i] = _source_turns[i])
    /\ [][/\ Len(_source_turns') >= Len(_source_turns)
          /\ \A i \in DOMAIN _source_turns :
                 _source_turns'[i].id = _source_turns[i].id
          /\ (lastEvent' # lastEvent /\ strip(lastEvent'.val.text) = "") =>
                 UNCHANGED <<_source_turns, driverVars>>]_vars

\* C23 witness: the turn 2 was stored before the turn 1, snapshots have been
\* passed to update_turns, and the latest turn event had a blank text and the
\* id of a stored turn.
C23_Witness ==
    /\ Len(_source_turns) = 2
    /\ _source_turns[1].id = 2
    /\ _source_turns[2].id = 1
    /\ nUpdates >= 2
    /\ lastCall = Values(_source_turns)
    /\ lastEvent.some
    /\ strip(lastEvent.val.text) = ""
    /\ lastEvent.val.id = 1

\* The indices of the snapshot's turns whose word list is empty.
EmptyWords(snapshot) == { j \in DOMAIN snapshot : snapshot[j].words = <<>> }

\* C24: turns with an empty word list are ignored. An absorption creates no
\* entry for such a turn, leaves the turn of an existing entry with that id
\* as it was, and every entry it invalidates has an id at or after a turn of
\* the snapshot that has words and is new or changed.
C24_EmptyWordsIgnored ==
    [][AbsorbStep =>
          /\ \A j \in EmptyWords(_queued_turns) :
                LET id == _queued_turns[j].id
                IN IF HasKey(turns, id)
                   THEN Get(turns', id).turn = Get(turns, id).turn
                   ELSE ~HasKey(turns', id)
          /\ \A i \in DOMAIN turns :
                (~IsDirty(turns[i]) /\ IsDirty(turns'[i])) =>
                    \E id \in DirtyIds(turns, _queued_turns) :
                        id <= turns[i].turn.id]_vars

\* C24 witness: an absorbed snapshot held an empty-words turn for which
\* there was no entry and an empty-words version of a turn that is held,
\* translated, with another text; that entry is still translated.
C24_Witness ==
    /\ lastStep = "absorb"
    /\ callsPending = 0
    /\ \E j \in EmptyWords(_queued_turns) : ~HasKey(turns, _queued_turns[j].id)
    /\ \E j \in EmptyWords(_queued_turns) :
          /\ HasKey(turns, _queued_turns[j].id)
          /\ Get(turns, _queued_turns[j].id).turn.text # _queued_turns[j].text
          /\ ~IsDirty(Get(turns, _queued_turns[j].id))

\* The step just taken absorbed an empty snapshot.
AbsorbsEmptyStep == AbsorbStep /\ _queued_turns = <<>>

\* C25: absorbing an empty snapshot leaves the entries as they were (none
\* added, modified or invalidated); with no entry dirty the driver goes back
\* to its wait having made no completion call and delivered nothing, and a
\* completion call that follows is for an entry that was dirty before.
C25_EmptySnapshotNoEffect ==
    [][AbsorbsEmptyStep =>
          /\ turns' = turns
          /\ delivered' = <<>>
          /\ sunk' = sunk
          /\ IF DirtyCount(turns) = 0
             THEN pc' = "wait" /\ nCompletions' = 0 /\ req' = NoRequest
             ELSE /\ pc' = "completion"
                  /\ IsDirty(Get(turns, req'.to_translate.val))]_vars

\* C25 witness: an empty snapshot has been absorbed while translated entries
\* were held; they are still translated and the driver is back at its wait.
C25_Witness ==
    /\ lastStep = "absorb"
    /\ callsPending = 0
    /\ _queued_turns = <<>>
    /\ pc = "wait"
    /\ turns # <<>>
    /\ \A i \in DOMAIN turns : LenTranslated(turns[i]) > 0

\* The step just taken is a call of update_turns.
UpdateStep == nUpdates' = nUpdates + 1

\* C26 (as the update tests assert): when update_turns(snapshot) returns,
\* turns holds an entry for every turn of the snapshot (with words) carrying
\* the snapshot's text, and an entry whose text changed has completion and
\* translated reset to null.
C26_TurnsUpdatedOnReturn ==
    [][UpdateStep =>
          \A j \in DOMAIN lastCall' :
              LET turn == lastCall'[j]
              IN turn.words # <<>> =>
                    /\ HasKey(turns', turn.id)
                    /\ Get(turns', turn.id).turn.text = turn.text
                    /\ (HasKey(turns, turn.id)
                            /\ Get(turns, turn.id).turn.text # turn.text) =>
                           /\ Get(turns', turn.id).completion = None
                           /\ Get(turns', turn.id).translated = None]_vars

\* C26 witness: update_turns has returned with a new text for a translated
\* turn and the entry still carries the old text and its completion.
C26_Witness ==
    /\ callsPending > 0
    /\ has_new_turns
    /\ \E j \in DOMAIN _queued_turns :
          LET turn == _queued_turns[j]
          IN /\ turn.words # <<>>
             /\ HasKey(turns, turn.id)
             /\ Get(turns, turn.id).turn.text # turn.text
             /\ ~IsDirty(Get(turns, turn.id))

\* The index in `entries` (sorted by turn id) of the first entry without a
\* completion, Len(entries) + 1 when every entry has one.
FirstDirty(entries) ==
    LET dirty == { k \in DOMAIN entries : IsDirty(entries[k]) }
    IN IF dirty = {} THEN Len(entries) + 1
       ELSE CHOOSE k \in dirty : \A j \in dirty : k <= j

\* `conversation` has the messages of the entries up to the first dirty one:
\* user, completion, one tool message per tool call, "ok" for a clean entry;
\* the user message alone, at the end, for the first dirty entry.
Assembled(entries, conversation) ==
    LET d == FirstDirty(entries)
    IN /\ Len(conversation) =
              BlockStart(entries, d) + (IF d <= Len(entries) THEN 1 ELSE 0)
       /\ d <= Len(entries) =>
              conversation[Len(conversation)] = UserMessage(entries[d].turn)
       /\ \A k \in 1..(d - 1) :
             LET at == BlockStart(entries, k)
                 calls == ToolCallsOf(entries[k].completion.val)
                 K == Len(calls)
             IN /\ conversation[at + 1] = UserMessage(entries[k].turn)
                /\ conversation[at + 2] = entries[k].completion.val
                /\ \A i \in 1..K :
                      /\ conversation[at + 2 + i].role = "tool"
                      /\ conversation[at + 2 + i].tool_call_id = calls[i].id
                /\ conversation[at + 3 + K] = OkMessage

C28_NoOkWithoutTools ==
    pc = "completion" =>
        LET conversation == req.conversation
            entries == SortedEntries(turns)
        IN /\ \A j \in DOMAIN conversation :
                 conversation[j] = OkMessage =>
                     j > 1 /\ conversation[j - 1].role = "tool"
           /\ (/\ Len(entries) = 2
               /\ FirstDirty(entries) = 2
               /\ ToolCallsOf(entries[1].completion.val) = <<>>) =>
                  Len(conversation) = 3

\* C28 witness: the conversation sent for the second turn, the first one
\* having a completion without tool calls, has four messages, the third
\* being the assistant message "ok" right after the cached completion.
C28_Witness ==
    /\ pc = "completion"
    /\ Len(turns) = 2
    /\ FirstDirty(SortedEntries(turns)) = 2
    /\ SortedEntries(turns)[1].completion.val.tool_calls = None
    /\ Len(req.conversation) = 4
    /\ req.conversation[2] = SortedEntries(turns)[1].completion.val
    /\ req.conversation[3] = OkMessage

\* C29: at most one completion() call is in flight at any time, whatever
\* update_turns calls the other tasks make; a call is in flight exactly while
\* the driver is suspended at `await self.completion(...)`.
C29_OneCallInFlight ==
    /\ in_flight \in {0, 1}
    /\ in_flight = 1 <=> pc = "completion"

\* C29 witness: a completion call is in flight, not the first one since the
\* last absorption, and update_turns has been called twice since that
\* absorption, the last time with a snapshot that will make an entry dirty.
C29_Witness ==
    /\ in_flight = 1
    /\ nCompletions >= 2
    /\ callsPending >= 2
    /\ has_new_turns
    /\ ~Reflects(turns, _queued_turns)

C31_NullTogether ==
    LET entries == SortedEntries(turns)
        built == _build_conversation(turns)
    IN /\ \A i \in DOMAIN turns :
             /\ (turns[i].completion = None) <=> (turns[i].translated = None)
             /\ (turns[i].completion = None) <=> IsDirty(turns[i])
       /\ built.to_translate.some <=> (DirtyCount(turns) > 0)
       /\ built.to_translate.some =>
              built.to_translate.val = entries[FirstDirty(entries)].turn.id

\* C31 witness: the driver is translating an entry that an absorption has
\* reset, next to an entry whose completion gave an empty translation list.
C31_Witness ==
    /\ pc = "completion"
    /\ absorbed.reset > 0
    /\ \E i \in DOMAIN turns :
          turns[i].completion # None /\ turns[i].translated = Some(<<>>)
    /\ \E i \in DOMAIN turns :
          /\ turns[i].turn.id = req.to_translate.val
          /\ turns[i].completion = None
          /\ turns[i].translated = None

\* The number of Terminate frames the session has sent.
TerminatesSent ==
    Cardinality({ i \in DOMAIN outbound : outbound[i] = TerminateFrame })

\* stream() is in its `finally`.
InFinally == stream.pc \in {"send_terminate", "await_termination", "gather"}

\* stream() has been left, by a return or by an exception.
Left == stream.pc \in {"returned", "raised"}

TaskFailed == "failed" \in {tx_t, rx_t}

AudioSent ==
    LET frames == SelectSeq(outbound, LAMBDA f : f.type = "binary")
    IN [i \in DOMAIN frames |-> frames[i].blob]

\* The non-empty chunks among `chunks`, in order.
NonEmpty(chunks) == SelectSeq(chunks, LAMBDA c : c # 0)

\* s is the sequence of the first Len(s) elements of t.
IsPrefix(s, t) == Len(s) <= Len(t) /\ \A i \in DOMAIN s : s[i] = t[i]

\* C34: the binary frames sent carry the non-empty chunks taken from the
\* queue, which are the first chunks put on it, in the order they were put,
\* one frame per chunk, all of them but for a chunk whose send is not over
\* (or was cut by a cancellation or an error); a task that has ended on the
\* empty chunk or by a cancellation has set should_send_terminate; and once
\* the task has ended no chunk is taken and no binary frame sent.
C34_TxForwardsInOrder ==
    /\ [](LET sent == AudioSent
              got == NonEmpty(taken)
          IN /\ IsPrefix(taken, Put)
             /\ IsPrefix(sent, got)
             /\ Len(sent) >= Len(got) - 1
             /\ tx_t \in {"get", "done"} => sent = got
             /\ tx_t = "done" <=>
                    (taken # <<>> /\ taken[Len(taken)] = 0)
             /\ tx_t \in {"done", "cancelled"} => should_send_terminate)
    /\ [][(tx_t \in Finished) =>
             /\ tx_t' = tx_t
             /\ taken' = taken
             /\ outbound' # outbound => outbound' = Append(outbound, TerminateFrame)]_vars

\* C34 witness: _stream_tx has sent two chunks, in order, has taken the
\* empty chunk and has ended, having set should_send_terminate.
C34_Witness ==
    /\ tx_t = "done"
    /\ taken = <<1, 2, 0>>
    /\ AudioSent = <<1, 2>>
    /\ should_send_terminate

\* The outcomes of _match_msg in which receiver.turn was called.
TurnDelivered == {"turn", "turn_raised"}

\* The last frame _stream_rx has handled in the step just taken.
JustHandled == handled'[Len(handled')]

\* C35: the frames are handled in the order received, none left out: a
\* frame that is not JSON, of an unknown or incomplete type, or whose
\* decoding or receiver callback raises, is skipped, _stream_rx going on to
\* its next recv with stream() left as it was; receiver.turn is called for
\* each well-formed Turn frame read, so in the order received; and
\* _stream_rx raises only when the socket is closed with no frame left.
C35_BadFramesSkipped ==
    /\ [](/\ \A i \in DOMAIN handled : handled[i].frame.n = i
          /\ \A j \in DOMAIN inbound : inbound[j].n = Len(handled) + j
          /\ \A i \in DOMAIN handled :
                handled[i].frame.kind = "Turn" <=>
                    handled[i].outcome \in TurnDelivered)
    /\ [][(handled' # handled) =>
             /\ handled' = Append(handled, JustHandled)
             /\ JustHandled.frame = Head(inbound)
             /\ stream' = stream
             /\ rx_t' = IF JustHandled.outcome = "terminated"
                        THEN "done" ELSE "recv"]_vars
    /\ [][(rx_t' = "failed" /\ rx_t # "failed") =>
             (~WsUp /\ inbound = <<>> /\ handled' = handled)]_vars

\* C35 witness: a Turn has been delivered, a Turn whose decoding raised has
\* been skipped, the Turn after it has been delivered, and _stream_rx is at
\* its recv with stream() waiting.
C35_Witness ==
    /\ Len(handled) = 3
    /\ handled[1].outcome = "turn"
    /\ handled[2].outcome = "decode_error"
    /\ handled[3].outcome = "turn"
    /\ rx_t = "recv"
    /\ stream = [pc |-> "wait", exc |-> "none"]

\* C36: a StreamConfig made by from_time_params has frames_per_buffer =
\* sample_rate * buffer_duration and queue_size = max_latency /
\* buffer_duration (100 ms and 300 ms give 3, the defaults give 30).
C36_ConfigFromTimeParams ==
    stream_config.some =>
        /\ stream_config.val.frames_per_buffer =
               (time_params.sample_rate * time_params.buffer_duration)
                   \div 1000
        /\ stream_config.val.queue_size =
               time_params.max_latency \div time_params.buffer_duration

\* C36 witness: the microphone is open with the config made from a
\* buffer_duration of 100 ms and a max_latency of 300 ms, a queue of 2.
C36_Witness ==
    /\ time_params =
           [sample_rate |-> DefaultSampleRate,
            buffer_duration |-> DefaultBufferDuration, max_latency |-> 300]
    /\ stream_config = Some([frames_per_buffer |-> 1600, queue_size |-> 2])
    /\ scope = "mic"
    /\ queue_size = 2

\* The entry with that turn id has a completion.
Clean(ts, id) == HasKey(ts, id) /\ Get(ts, id).completion # None

\* C37: clean entries form a prefix in turn-id order. In every state no
\* entry has a completion while an entry with a smaller turn id has none; a
\* step gives an entry a completion only as the end of a translation, for
\* the turn the request was built for, which was the dirty entry of the
\* smallest id, and it changes no other entry.
C37_CleanPrefix ==
    /\ [](\A i, j \in DOMAIN turns :
              (turns[i].turn.id < turns[j].turn.id
               /\ turns[j].completion # None) => turns[i].completion # None)
    /\ [][\A id \in 1..MaxTurnId :
              (~Clean(turns, id) /\ Clean(turns', id)) =>
                  /\ TranslatedStep
                  /\ req.to_translate = Some(id)
                  /\ HasKey(turns, id)
                  /\ \A k \in 1..(id - 1) :
                         HasKey(turns, k) => Clean(turns, k)
                  /\ Len(turns') = Len(turns)
                  /\ \A i \in DOMAIN turns :
                         turns[i].turn.id # id => turns'[i] = turns[i]]_vars

\* C37 witness: the turn 1 came in a snapshot after the turn 2 was known;
\* the turn 1 has been translated since and the turn 2 is dirty.
C37_Witness ==
    /\ Len(turns) = 2
    /\ turns[1].turn.id = 2
    /\ turns[2].turn.id = 1
    /\ turns[2].completion # None
    /\ turns[1].completion = None
    /\ absorbed.reset > 0

C39_NoAudioLost ==
    (stream_t.pc # "none" /\ Put # <<>> /\ Put[Len(Put)] = 0) =>
        /\ buf = 0
        /\ \A i \in 1..(Len(Put) - 1) : Put[i] = i

\* C39 witness: the decoder has exited with 0 at the end of the file, the
\* feeder has read its whole output and ended normally after the empty
\* chunk, inside the scope, and the remainder shorter than a chunk is still
\* in buf: one chunk and the empty chunk are all that was put.
C39_Witness ==
    /\ scope = "file"
    /\ stream_t.pc = "done"
    /\ stream_t.exc = "none"
    /\ returncode = Some(0)
    /\ left = 0
    /\ stdout = 0
    /\ buf > 0
    /\ buf < ChunkUnits
    /\ Put = <<1, 0>>

\* C40 (as stated): every Termination frame _stream_rx receives sets the
\* terminated flag and ends the task, whether the receiver's termination
\* callback returns or raises; and once the flag is set _stream_rx reads no
\* further frame.
C40_TerminationEndsRx ==
    /\ [][(handled' # handled /\ handled' # <<>>
             /\ JustHandled.frame.kind = "Termination") =>
                (termination_received' /\ rx_t' = "done")]_vars
    /\ [][termination_received =>
             (handled' = handled /\ inbound' \in {inbound} \cup
                  { Append(inbound, Frame(kind, FramesSent + 1)) :
                        kind \in FrameKinds })]_vars

\* C40 witness: a Turn has been delivered, then receiver.termination raised
\* on the Termination frame: the flag is not set and _stream_rx is at its
\* recv again, on a socket that is still up.
C40_Witness ==
    /\ Len(handled) = 2
    /\ handled[1].outcome = "turn"
    /\ handled[2].frame.kind = "Termination"
    /\ handled[2].outcome = "termination_raised"
    /\ ~termination_received
    /\ rx_t = "recv"
    /\ WsUp

====
